---------------------------- MODULE Spec2Model ----------------------------
(***************************************************************************)
(* Smart Pill Box (ESP32): the cooperative loop() of main.cpp together     *)
(* with the components it drives: DoseManager, AlarmController,            *)
(* ButtonHandler, LidSensor, UIManager, TimeManager and the handlers of    *)
(* PillBoxWebServer.                                                       *)
(*                                                                         *)
(* One Loop step is one iteration of loop().  The millisecond counter and  *)
(* the RTC advance in steps of their own (AdvanceMillis, RtcAdvance), and  *)
(* each web request is one step taken between two iterations.              *)
(*                                                                         *)
(* The device is run in five surroundings, each a specification over the   *)
(* same steps: Spec (a user with the OK and BACK buttons and the lid),     *)
(* SpecSnooze (a user who snoozes an alert and waits), SpecDay (the device *)
(* over a change of day), SpecNetwork (the device under the network's      *)
(* alarm and dose commands) and SpecWeb (a web client that adds, deletes   *)
(* and replaces doses).  Four components are also run on their own, under  *)
(* any caller: the alarm engine (SpecEngine), the dose scheduler           *)
(* (SpecScheduler, and SpecCapacity for a schedule that fills up), and,    *)
(* with their timers, the button handler (SpecButtons) and the lid sensor  *)
(* (SpecLid).                                                              *)
(***************************************************************************)
EXTENDS Integers, Sequences, FiniteSets, TLC

VARIABLES
    systemState,      \* SystemState (config.h): the coordinator's fields
    doses,            \* DoseManager::doses[0 .. doseCount-1]
    alarmController,  \* AlarmController's private fields
    uiManager,        \* UIManager::displayOn, lastActivity
    buttons,          \* ButtonHandler::buttons[BUTTON_COUNT]
    lidSensor,        \* LidSensor's fields
    webServer,        \* PillBoxWebServer::running, timeEditUnlocked
    rtc,              \* TimeManager::cachedDateTime as read by the loop
    millis,           \* Arduino millis()
    lastTimeCheck,    \* main.cpp lastTimeCheck
    editingTime,      \* main.cpp editingTime
    editField,        \* main.cpp editField
    editDate,         \* main.cpp editDay, editMonth, editYear
    inListMode,       \* handleDoseEdit's function-static inListMode
    storage,          \* Storage: the persisted settings, last day and dose records
    lastLoop,         \* history: what the last step did, or the last call made
    dismissed,        \* history: the dose and day of the last OK-long-press dismissal
    advances,         \* history: number of steps taken by millis()
    presses,          \* history: number of button presses made
    edits,            \* history: number of field increments made in edit screens
    inputs,           \* history: the readings of the input pins and the events
                      \* generated from them and delivered
    alerted           \* history: the dose and day whose match raised the alert
                      \* in progress

vars == <<systemState, doses, alarmController, uiManager, buttons, lidSensor,
          webServer, rtc, millis, lastTimeCheck, editingTime, editField,
          editDate, inListMode, storage, lastLoop, dismissed, advances, presses,
          edits, inputs, alerted>>

---------------------------------------------------------------------------
(* config.h *)

DEBOUNCE_DELAY == 50
LONG_PRESS_DURATION == 3000
SCREEN_TIMEOUT == 180000
SNOOZE_DURATION == 300
LID_DEBOUNCE_DURATION == 500
TIME_CHECK_INTERVAL == 1000
MAX_DOSES == 10
MIN_DOSE_SPACING == 15
MENU_ITEMS_COUNT == 5
DOSE_MENU_ITEMS_COUNT == 4

BUTTON_OK == 0
BUTTON_NEXT == 1
BUTTON_BACK == 2
BUTTON_COUNT == 3

BTN_NONE == "BTN_NONE"
BTN_SHORT_PRESS == "BTN_SHORT_PRESS"
BTN_LONG_PRESS == "BTN_LONG_PRESS"

MENU_HOME == "MENU_HOME"
MENU_MAIN == "MENU_MAIN"
MENU_EDIT_DOSES == "MENU_EDIT_DOSES"
MENU_ADD_DOSE == "MENU_ADD_DOSE"
MENU_EDIT_DOSE == "MENU_EDIT_DOSE"
MENU_DELETE_DOSE == "MENU_DELETE_DOSE"
MENU_EDIT_TIME == "MENU_EDIT_TIME"
MENU_EDIT_DATE == "MENU_EDIT_DATE"
MENU_ALARM_TOGGLE == "MENU_ALARM_TOGGLE"
MENU_WIFI_TOGGLE == "MENU_WIFI_TOGGLE"
MENU_ALERT == "MENU_ALERT"

MenuState == {MENU_HOME, MENU_MAIN, MENU_EDIT_DOSES, MENU_ADD_DOSE, MENU_EDIT_DOSE,
              MENU_DELETE_DOSE, MENU_EDIT_TIME, MENU_EDIT_DATE, MENU_ALARM_TOGGLE,
              MENU_WIFI_TOGGLE, MENU_ALERT}

PATTERN_GENTLE == "PATTERN_GENTLE"
PATTERN_STANDARD == "PATTERN_STANDARD"
PATTERN_URGENT == "PATTERN_URGENT"

LOW == FALSE
HIGH == TRUE

\* struct Time12H
Time12H(h, m, pm) == [hour |-> h, minute |-> m, isPM |-> pm]

\* struct Dose, default constructed
Dose(t, en, tk, i) == [time |-> t, enabled |-> en, taken |-> tk, id |-> i]

---------------------------------------------------------------------------
(* TimeManager.cpp *)

convert12to24(time) ==
    IF time.isPM
    THEN (IF time.hour = 12 THEN 12 ELSE time.hour + 12)
    ELSE (IF time.hour = 12 THEN 0 ELSE time.hour)

isValidTime(time) == time.hour >= 1 /\ time.hour <= 12 /\ time.minute <= 59

\* isTimeMatch comparing hour and minute only
isTimeMatch_noMeridiem(t1, t2) == t1.hour = t2.hour /\ t1.minute = t2.minute

isTimeMatch(t1, t2) ==
    t1.hour = t2.hour /\ t1.minute = t2.minute /\ t1.isPM = t2.isPM

isValidDate(day, month, year) ==
    ~(day < 1 \/ day > 31 \/ month < 1 \/ month > 12 \/ year < 2000 \/ year > 2099)

\* setTime: rejected when invalid, otherwise the clock takes the new time of day
setTime(clock, time) ==
    IF ~isValidTime(time) THEN clock ELSE [clock EXCEPT !.time = time]

\* setDate: rejected when invalid, otherwise the clock takes the new date
setDate(clock, day, month, year) ==
    IF ~isValidDate(day, month, year) THEN clock
    ELSE [clock EXCEPT !.day = day, !.month = month, !.year = year]

---------------------------------------------------------------------------
(* DoseManager.cpp.  doses[i] of the code is ds[i+1] here; doseCount is    *)
(* Len(ds).                                                                *)

timeToMinutes(time) == convert12to24(time) * 60 + time.minute

Abs(x) == IF x < 0 THEN -x ELSE x

\* isTimeSlotAvailable without its step around the day's end
isTimeSlotAvailable_noWrap(ds, time, excludeIndex) ==
    \A i \in 0 .. Len(ds) - 1 :
        i = excludeIndex \/
        ~(Abs(timeToMinutes(time) - timeToMinutes(ds[i + 1].time)) < MIN_DOSE_SPACING)

\* isTimeSlotAvailable refusing a dose at exactly the minimum spacing
isTimeSlotAvailable_exclusive(ds, time, excludeIndex) ==
    \A i \in 0 .. Len(ds) - 1 :
        i = excludeIndex \/
        LET d0 == Abs(timeToMinutes(time) - timeToMinutes(ds[i + 1].time))
            diff == IF d0 > 12 * 60 THEN 24 * 60 - d0 ELSE d0
        IN  ~(diff <= MIN_DOSE_SPACING)

\* isTimeSlotAvailable(time, excludeIndex), excludeIndex = -1 for none
isTimeSlotAvailable(ds, time, excludeIndex) ==
    \A i \in 0 .. Len(ds) - 1 :
        i = excludeIndex \/
        LET d0 == Abs(timeToMinutes(time) - timeToMinutes(ds[i + 1].time))
            diff == IF d0 > 12 * 60 THEN 24 * 60 - d0 ELSE d0
        IN  ~(diff < MIN_DOSE_SPACING)

\* the inner loop of the bubble sort: j runs while j < last
RECURSIVE BubblePass(_, _, _)
BubblePass(ds, j, last) ==
    IF j >= last THEN ds
    ELSE LET a == ds[j + 1]
             b == ds[j + 2]
             swapped == [ds EXCEPT ![j + 1] = b, ![j + 2] = a]
         IN  BubblePass(IF timeToMinutes(a.time) > timeToMinutes(b.time)
                        THEN swapped ELSE ds, j + 1, last)

\* the outer loop of the bubble sort: i runs while i < doseCount - 1
RECURSIVE BubbleSort(_, _)
BubbleSort(ds, i) ==
    IF i >= Len(ds) - 1 THEN ds
    ELSE BubbleSort(BubblePass(ds, 0, Len(ds) - i - 1), i + 1)

sortDoses(ds) ==
    LET s == BubbleSort(ds, 0)
    IN  [k \in 1 .. Len(s) |-> [s[k] EXCEPT !.id = k - 1]]

\* addDose without its test for a full schedule
addDose_capacityUnchecked(ds, time) ==
    IF ~isValidTime(time) THEN [ok |-> FALSE, doses |-> ds]
    ELSE IF ~isTimeSlotAvailable(ds, time, -1) THEN [ok |-> FALSE, doses |-> ds]
    ELSE [ok |-> TRUE,
          doses |-> sortDoses(Append(ds, Dose(time, TRUE, FALSE, Len(ds))))]

\* addDose: [ok, doses]
addDose(ds, time) ==
    IF Len(ds) >= MAX_DOSES THEN [ok |-> FALSE, doses |-> ds]
    ELSE IF ~isValidTime(time) THEN [ok |-> FALSE, doses |-> ds]
    ELSE IF ~isTimeSlotAvailable(ds, time, -1) THEN [ok |-> FALSE, doses |-> ds]
    ELSE [ok |-> TRUE,
          doses |-> sortDoses(Append(ds, Dose(time, TRUE, FALSE, Len(ds))))]

\* removeDose without its doses[i].id = i
removeDose_idsKept(ds, index) ==
    IF index >= Len(ds) THEN [ok |-> FALSE, doses |-> ds]
    ELSE [ok |-> TRUE,
          doses |-> [k \in 1 .. Len(ds) - 1 |->
                        IF k - 1 < index THEN ds[k] ELSE ds[k + 1]]]

\* removeDose: [ok, doses]
removeDose(ds, index) ==
    IF index >= Len(ds) THEN [ok |-> FALSE, doses |-> ds]
    ELSE [ok |-> TRUE,
          doses |-> [k \in 1 .. Len(ds) - 1 |->
                        IF k - 1 < index THEN ds[k]
                        ELSE [ds[k + 1] EXCEPT !.id = k - 1]]]

\* updateDose with the edited dose left in the spacing check
updateDose_selfIncluded(ds, index, time) ==
    IF index >= Len(ds) THEN [ok |-> FALSE, doses |-> ds]
    ELSE IF ~isValidTime(time) THEN [ok |-> FALSE, doses |-> ds]
    ELSE IF ~isTimeSlotAvailable(ds, time, -1) THEN [ok |-> FALSE, doses |-> ds]
    ELSE [ok |-> TRUE, doses |-> sortDoses([ds EXCEPT ![index + 1].time = time])]

\* updateDose without its sortDoses()
updateDose_unsorted(ds, index, time) ==
    IF index >= Len(ds) THEN [ok |-> FALSE, doses |-> ds]
    ELSE IF ~isValidTime(time) THEN [ok |-> FALSE, doses |-> ds]
    ELSE IF ~isTimeSlotAvailable(ds, time, index) THEN [ok |-> FALSE, doses |-> ds]
    ELSE [ok |-> TRUE, doses |-> [ds EXCEPT ![index + 1].time = time]]

\* updateDose: [ok, doses]
updateDose(ds, index, time) ==
    IF index >= Len(ds) THEN [ok |-> FALSE, doses |-> ds]
    ELSE IF ~isValidTime(time) THEN [ok |-> FALSE, doses |-> ds]
    ELSE IF ~isTimeSlotAvailable(ds, time, index) THEN [ok |-> FALSE, doses |-> ds]
    ELSE [ok |-> TRUE, doses |-> sortDoses([ds EXCEPT ![index + 1].time = time])]

\* DoseManager::checkDoseTime: the first enabled, untaken dose at currentTime, or -1
DoseManager_checkDoseTime(ds, currentTime) ==
    LET hits == {i \in 0 .. Len(ds) - 1 :
                    /\ ds[i + 1].enabled
                    /\ ~ds[i + 1].taken
                    /\ isTimeMatch(currentTime, ds[i + 1].time)}
    IN  IF hits = {} THEN -1
        ELSE CHOOSE i \in hits : \A k \in hits : i <= k

setDoseEnabled(ds, index, enabled) ==
    IF index < Len(ds) THEN [ds EXCEPT ![index + 1].enabled = enabled] ELSE ds

\* markDoseTaken(index): index is a uint8_t
markDoseTaken(ds, index) ==
    IF index >= 0 /\ index < Len(ds) THEN [ds EXCEPT ![index + 1].taken = TRUE] ELSE ds

\* resetDailyStatus clearing the first dose only
resetDailyStatus_firstOnly(ds) ==
    [k \in 1 .. Len(ds) |-> IF k = 1 THEN [ds[k] EXCEPT !.taken = FALSE] ELSE ds[k]]

resetDailyStatus(ds) == [k \in 1 .. Len(ds) |-> [ds[k] EXCEPT !.taken = FALSE]]

\* the loop of getNextDose from dose i on: nextDose and minDiff are the
\* nearest dose found so far and its distance
RECURSIVE NextDoseScan(_, _, _, _, _)
NextDoseScan(ds, currentMinutes, i, nextDose, minDiff) ==
    IF i >= Len(ds) THEN nextDose
    ELSE IF ~(ds[i + 1].enabled /\ ~ds[i + 1].taken)
    THEN NextDoseScan(ds, currentMinutes, i + 1, nextDose, minDiff)
    ELSE LET doseMinutes == timeToMinutes(ds[i + 1].time)
             diff == IF doseMinutes > currentMinutes
                     THEN doseMinutes - currentMinutes
                     ELSE (24 * 60 - currentMinutes) + doseMinutes
         IN  IF doseMinutes = currentMinutes THEN i
             ELSE IF diff < minDiff
             THEN NextDoseScan(ds, currentMinutes, i + 1, i, diff)
             ELSE NextDoseScan(ds, currentMinutes, i + 1, nextDose, minDiff)

\* getNextDose returning the first enabled, untaken dose of the schedule
getNextDose_firstOfTheDay(ds, currentTime) ==
    LET untaken == {i \in 0 .. Len(ds) - 1 : ds[i + 1].enabled /\ ~ds[i + 1].taken}
    IN  IF untaken = {} THEN -1 ELSE CHOOSE i \in untaken : \A k \in untaken : i <= k

\* getNextDose(currentTime): the index of the next dose to come, or -1
getNextDose(ds, currentTime) ==
    NextDoseScan(ds, timeToMinutes(currentTime), 0, -1, 24 * 60 + 1)

clearAllDoses(ds) == << >>

\* getDose(index) is non-null; index is a uint8_t, so -1 arrives as 255
getDoseExists(ds, index) == index >= 0 /\ index < Len(ds)

---------------------------------------------------------------------------
(* AlarmController.cpp *)

GENTLE_PATTERN == <<200, 1500, 200, 1500, 200, 3000>>
STANDARD_PATTERN == <<500, 500, 500, 500, 500, 1000>>
URGENT_PATTERN == <<200, 200, 200, 200, 200, 200>>

getCurrentPattern(a) ==
    IF a.currentPattern = PATTERN_GENTLE THEN GENTLE_PATTERN
    ELSE IF a.currentPattern = PATTERN_URGENT THEN URGENT_PATTERN
    ELSE STANDARD_PATTERN

getPatternLength(a) == Len(getCurrentPattern(a))

\* AlarmController::begin
AlarmBegin ==
    [active |-> FALSE, snoozed |-> FALSE, buzzerEnabled |-> TRUE, buzzerOn |-> FALSE,
     output |-> FALSE, currentPattern |-> PATTERN_STANDARD, snoozeEndTime |-> 0, lastToggle |-> 0,
     patternStep |-> 0]

\* buzzerOutput: output is the PWM duty written to the buzzer channel being
\* non-zero
buzzerOutput(a, on) == [a EXCEPT !.buzzerOn = on, !.output = on /\ a.buzzerEnabled]

\* startAlarm without its test for a disabled buzzer
startAlarm_whenDisabled(a, pattern, now) ==
    buzzerOutput([a EXCEPT !.active = TRUE, !.snoozed = FALSE,
                           !.currentPattern = pattern, !.patternStep = 0,
                           !.lastToggle = now], TRUE)

startAlarm(a, pattern, now) ==
    IF ~a.buzzerEnabled THEN a
    ELSE buzzerOutput([a EXCEPT !.active = TRUE, !.snoozed = FALSE,
                                !.currentPattern = pattern, !.patternStep = 0,
                                !.lastToggle = now], TRUE)

\* stopAlarm without its buzzerOutput(false)
stopAlarm_outputLeftOn(a) ==
    [a EXCEPT !.active = FALSE, !.snoozed = FALSE, !.patternStep = 0]

stopAlarm(a) ==
    [buzzerOutput([a EXCEPT !.active = FALSE, !.snoozed = FALSE], FALSE)
        EXCEPT !.patternStep = 0]

snooze(a, seconds, now) ==
    IF ~a.active THEN a
    ELSE buzzerOutput([a EXCEPT !.snoozed = TRUE,
                                !.snoozeEndTime = now + seconds * 1000], FALSE)

\* update() advancing the pattern on every call, whatever time has passed
AlarmUpdate_everyCall(a, now) ==
    IF a.snoozed /\ a.active
    THEN (IF now >= a.snoozeEndTime
          THEN buzzerOutput([a EXCEPT !.snoozed = FALSE, !.patternStep = 0,
                                      !.lastToggle = now], TRUE)
          ELSE a)
    ELSE IF a.active /\ ~a.snoozed
    THEN LET s0 == a.patternStep + 1
             s1 == IF s0 >= getPatternLength(a) THEN 0 ELSE s0
         IN  [buzzerOutput([a EXCEPT !.patternStep = s1], s1 % 2 = 0)
                 EXCEPT !.lastToggle = now]
    ELSE a

AlarmUpdate(a, now) ==
    IF a.snoozed /\ a.active
    THEN (IF now >= a.snoozeEndTime
          THEN buzzerOutput([a EXCEPT !.snoozed = FALSE, !.patternStep = 0,
                                      !.lastToggle = now], TRUE)
          ELSE a)
    ELSE IF a.active /\ ~a.snoozed
    THEN (IF now - a.lastToggle >= getCurrentPattern(a)[a.patternStep + 1]
          THEN LET s0 == a.patternStep + 1
                   s1 == IF s0 >= getPatternLength(a) THEN 0 ELSE s0
               IN  [buzzerOutput([a EXCEPT !.patternStep = s1], s1 % 2 = 0)
                       EXCEPT !.lastToggle = now]
          ELSE a)
    ELSE a

getSnoozeRemaining(a, now) ==
    IF ~a.snoozed \/ now >= a.snoozeEndTime THEN 0
    ELSE (a.snoozeEndTime - now) \div 1000

setEnabled(a, enabled) == [a EXCEPT !.buzzerEnabled = enabled]

---------------------------------------------------------------------------
(* UIManager.cpp *)

turnOff(ui) == [ui EXCEPT !.displayOn = FALSE]

turnOn(ui, now) == [ui EXCEPT !.displayOn = TRUE, !.lastActivity = now]

updateActivity(ui, now) ==
    LET u == [ui EXCEPT !.lastActivity = now]
    IN  IF ~u.displayOn THEN turnOn(u, now) ELSE u

\* checkTimeout: [fired, ui]
checkTimeout(ui, now) ==
    IF ui.displayOn /\ now - ui.lastActivity >= SCREEN_TIMEOUT
    THEN [fired |-> TRUE, ui |-> turnOff(ui)]
    ELSE [fired |-> FALSE, ui |-> ui]

---------------------------------------------------------------------------
(* ButtonHandler.cpp.  In the loop model the debounce and long-press timers *)
(* of processButton are resolved by the input: "press" and "release" are a *)
(* reading that has outlasted DEBOUNCE_DELAY and differs from currentState, *)
(* "long" is a held button reaching LONG_PRESS_DURATION, "idle" is neither. *)

ButtonInputs == {"idle", "press", "release", "long"}

\* ButtonHandler::begin: one button
ButtonBegin ==
    [lastReading |-> HIGH, currentState |-> HIGH, wasPressed |-> FALSE,
     lastDebounceTime |-> 0, pressStartTime |-> 0, longPressTriggered |-> FALSE,
     pendingEvent |-> BTN_NONE]

processButton(btn, in) ==
    IF in = "press" /\ btn.currentState = HIGH
    THEN [btn EXCEPT !.currentState = LOW, !.longPressTriggered = FALSE,
                     !.wasPressed = TRUE]
    ELSE IF in = "release" /\ btn.currentState = LOW
    THEN [btn EXCEPT !.currentState = HIGH, !.wasPressed = FALSE,
                     !.pendingEvent = IF btn.wasPressed /\ ~btn.longPressTriggered
                                      THEN BTN_SHORT_PRESS ELSE @]
    ELSE IF in = "long" /\ btn.currentState = LOW /\ btn.wasPressed
            /\ ~btn.longPressTriggered
    THEN [btn EXCEPT !.longPressTriggered = TRUE, !.pendingEvent = BTN_LONG_PRESS]
    ELSE btn

\* the input can happen to the button: it is idle or it changes the button
ButtonInputValid(btn, in) == in = "idle" \/ processButton(btn, in) # btn

ButtonHandlerUpdate(bs, ins) == [i \in 0 .. BUTTON_COUNT - 1 |-> processButton(bs[i], ins[i])]

anyButtonPressed(bs) == \E i \in 0 .. BUTTON_COUNT - 1 : bs[i].currentState = LOW

clearEvents(bs) == [i \in 0 .. BUTTON_COUNT - 1 |-> [bs[i] EXCEPT !.pendingEvent = BTN_NONE]]

\* consumeEvent leaving the event pending
consumeEvent_notCleared(bs, index) ==
    IF index >= BUTTON_COUNT THEN [event |-> BTN_NONE, buttons |-> bs]
    ELSE [event |-> bs[index].pendingEvent, buttons |-> bs]

\* consumeEvent(index): [event, buttons]
consumeEvent(bs, index) ==
    IF index >= BUTTON_COUNT THEN [event |-> BTN_NONE, buttons |-> bs]
    ELSE [event |-> bs[index].pendingEvent,
          buttons |-> [bs EXCEPT ![index].pendingEvent = BTN_NONE]]

\* processButtonAt generating the long press at every call past the threshold
processButtonAt_longRepeats(btn, reading, now) ==
    LET b1 == IF reading # btn.lastReading
              THEN [btn EXCEPT !.lastDebounceTime = now] ELSE btn
        stable == now - b1.lastDebounceTime > DEBOUNCE_DELAY
        b2 == IF stable /\ reading # b1.currentState
              THEN (IF reading = LOW
                    THEN [b1 EXCEPT !.currentState = reading, !.pressStartTime = now,
                                    !.longPressTriggered = FALSE, !.wasPressed = TRUE]
                    ELSE [b1 EXCEPT !.currentState = reading, !.wasPressed = FALSE,
                                    !.pendingEvent =
                                        IF b1.wasPressed /\ ~b1.longPressTriggered
                                        THEN BTN_SHORT_PRESS ELSE @])
              ELSE b1
        b3 == IF /\ stable
                 /\ b2.currentState = LOW /\ b2.wasPressed
                 /\ now - b2.pressStartTime >= LONG_PRESS_DURATION
              THEN [b2 EXCEPT !.longPressTriggered = TRUE,
                              !.pendingEvent = BTN_LONG_PRESS]
              ELSE b2
    IN  [b3 EXCEPT !.lastReading = reading]

\* processButtonAt taking every reading as stable
processButtonAt_undebounced(btn, reading, now) ==
    LET b1 == IF reading # btn.lastReading
              THEN [btn EXCEPT !.lastDebounceTime = now] ELSE btn
        stable == TRUE
        b2 == IF stable /\ reading # b1.currentState
              THEN (IF reading = LOW
                    THEN [b1 EXCEPT !.currentState = reading, !.pressStartTime = now,
                                    !.longPressTriggered = FALSE, !.wasPressed = TRUE]
                    ELSE [b1 EXCEPT !.currentState = reading, !.wasPressed = FALSE,
                                    !.pendingEvent =
                                        IF b1.wasPressed /\ ~b1.longPressTriggered
                                        THEN BTN_SHORT_PRESS ELSE @])
              ELSE b1
        b3 == IF /\ stable
                 /\ b2.currentState = LOW /\ b2.wasPressed /\ ~b2.longPressTriggered
                 /\ now - b2.pressStartTime >= LONG_PRESS_DURATION
              THEN [b2 EXCEPT !.longPressTriggered = TRUE,
                              !.pendingEvent = BTN_LONG_PRESS]
              ELSE b2
    IN  [b3 EXCEPT !.lastReading = reading]

\* processButton with its timers: reading is what digitalRead returns and now
\* is millis()
processButtonAt(btn, reading, now) ==
    LET b1 == IF reading # btn.lastReading
              THEN [btn EXCEPT !.lastDebounceTime = now] ELSE btn
        stable == now - b1.lastDebounceTime > DEBOUNCE_DELAY
        b2 == IF stable /\ reading # b1.currentState
              THEN (IF reading = LOW
                    THEN [b1 EXCEPT !.currentState = reading, !.pressStartTime = now,
                                    !.longPressTriggered = FALSE, !.wasPressed = TRUE]
                    ELSE [b1 EXCEPT !.currentState = reading, !.wasPressed = FALSE,
                                    !.pendingEvent =
                                        IF b1.wasPressed /\ ~b1.longPressTriggered
                                        THEN BTN_SHORT_PRESS ELSE @])
              ELSE b1
        b3 == IF /\ stable
                 /\ b2.currentState = LOW /\ b2.wasPressed /\ ~b2.longPressTriggered
                 /\ now - b2.pressStartTime >= LONG_PRESS_DURATION
              THEN [b2 EXCEPT !.longPressTriggered = TRUE,
                              !.pendingEvent = BTN_LONG_PRESS]
              ELSE b2
    IN  [b3 EXCEPT !.lastReading = reading]

\* update() with its timers: every button is processed with its reading
ButtonHandlerUpdateAt(bs, readings, now) ==
    [i \in 0 .. BUTTON_COUNT - 1 |-> processButtonAt(bs[i], readings[i], now)]

\* the event the call generates, whatever event was pending before it
GeneratedEvent(btn, reading, now) ==
    processButtonAt([btn EXCEPT !.pendingEvent = BTN_NONE], reading, now).pendingEvent

---------------------------------------------------------------------------
(* LidSensor.cpp.  In the loop model the two stability windows of update() *)
(* are resolved by the input: "change" is a reading that has been stable   *)
(* for LID_DEBOUNCE_DURATION and differs from lidOpen, "idle" is not.       *)

LidInputs == {"idle", "change"}

\* LidSensor::begin with the reed switch read as reading: HIGH is an open lid
LidBegin(reading) ==
    [lidOpen |-> reading = HIGH, currentReading |-> reading,
     justOpenedFlag |-> FALSE, justClosedFlag |-> FALSE,
     lastDebounceTime |-> 0, stateChangeTime |-> 0, openingsToday |-> 0]

\* the inputs of a lid that is opened and left open
LidOpening(lid) == IF lid.lidOpen THEN {"idle"} ELSE LidInputs

LidSensorUpdate(lid, in) ==
    LET cleared == [lid EXCEPT !.justOpenedFlag = FALSE, !.justClosedFlag = FALSE]
    IN  IF in = "change"
        THEN (IF ~lid.lidOpen
              THEN [cleared EXCEPT !.lidOpen = TRUE, !.justOpenedFlag = TRUE,
                                   !.openingsToday = @ + 1]
              ELSE [cleared EXCEPT !.lidOpen = FALSE, !.justClosedFlag = TRUE])
        ELSE cleared

resetDailyCount(lid) == [lid EXCEPT !.openingsToday = 0]

\* update() without its test of the longer window
LidSensorUpdateAt_shortWindow(lid, reading, now) ==
    LET cleared == [lid EXCEPT !.justOpenedFlag = FALSE, !.justClosedFlag = FALSE]
        l1 == IF reading # cleared.currentReading
              THEN [cleared EXCEPT !.currentReading = reading,
                                   !.lastDebounceTime = now, !.stateChangeTime = now]
              ELSE cleared
        newState == l1.currentReading = HIGH
    IN  IF /\ now - l1.lastDebounceTime > DEBOUNCE_DELAY
           /\ newState # l1.lidOpen
        THEN (IF newState
              THEN [l1 EXCEPT !.lidOpen = TRUE, !.justOpenedFlag = TRUE,
                              !.openingsToday = @ + 1]
              ELSE [l1 EXCEPT !.lidOpen = FALSE, !.justClosedFlag = TRUE])
        ELSE l1

\* update() with its two stability windows: reading is what digitalRead
\* returns and now is millis()
LidSensorUpdateAt(lid, reading, now) ==
    LET cleared == [lid EXCEPT !.justOpenedFlag = FALSE, !.justClosedFlag = FALSE]
        l1 == IF reading # cleared.currentReading
              THEN [cleared EXCEPT !.currentReading = reading,
                                   !.lastDebounceTime = now, !.stateChangeTime = now]
              ELSE cleared
        newState == l1.currentReading = HIGH
    IN  IF /\ now - l1.lastDebounceTime > DEBOUNCE_DELAY
           /\ now - l1.stateChangeTime >= LID_DEBOUNCE_DURATION
           /\ newState # l1.lidOpen
        THEN (IF newState
              THEN [l1 EXCEPT !.lidOpen = TRUE, !.justOpenedFlag = TRUE,
                              !.openingsToday = @ + 1]
              ELSE [l1 EXCEPT !.lidOpen = FALSE, !.justClosedFlag = TRUE])
        ELSE l1

\* justOpened(): [result, lid]
justOpened(lid) ==
    IF lid.justOpenedFlag
    THEN [result |-> TRUE, lid |-> [lid EXCEPT !.justOpenedFlag = FALSE]]
    ELSE [result |-> FALSE, lid |-> lid]

---------------------------------------------------------------------------
(* PillBoxWebServer start/stop and Storage settings *)

webStart(ws) == IF ws.running THEN ws ELSE [ws EXCEPT !.running = TRUE]

\* stop() leaving the time-edit unlock flag as it is
webStop_flagKept(ws) ==
    IF ~ws.running THEN ws ELSE [ws EXCEPT !.running = FALSE]

webStop(ws) ==
    IF ~ws.running THEN ws ELSE [ws EXCEPT !.running = FALSE, !.timeEditUnlocked = FALSE]

saveSettings(st, alarmEnabled, muteMode) ==
    [st EXCEPT !.alarmEn = alarmEnabled, !.muteMode = muteMode]

saveLastDay(st, day) == [st EXCEPT !.lastDay = day]

\* the exclusive or of two bytes, from bit k up
RECURSIVE XorFrom(_, _, _)
XorFrom(a, b, k) ==
    IF k = 8 THEN 0
    ELSE (IF (a \div 2^k) % 2 # (b \div 2^k) % 2 THEN 2^k ELSE 0) + XorFrom(a, b, k + 1)

Xor8(a, b) == XorFrom(a, b, 0)

\* the inner loop of calculateCRC: crc after n of its rounds
RECURSIVE CrcShift(_, _)
CrcShift(crc, n) ==
    IF n = 0 THEN crc
    ELSE LET c == CrcShift(crc, n - 1)
         IN  IF c \div 128 = 1 THEN Xor8((c * 2) % 256, 7) ELSE (c * 2) % 256

\* the outer loop of calculateCRC: crc after the first n bytes of data, taken
\* four passes at a time where the bytes before them are groups of four;
\* pass[crc][byte] is crc after one pass that takes the byte in
RECURSIVE CrcUpTo(_, _)
CrcUpTo(data, n) ==
    LET pass == [crc \in 0 .. 255 |->
                    [byte \in 0 .. 255 |-> CrcShift(Xor8(crc, byte), 8)]]
    IN  IF n = 0 THEN 0
        ELSE IF n % 4 = 0
        THEN pass[pass[pass[pass[CrcUpTo(data, n - 4)][data[n - 3]]]
                          [data[n - 2]]][data[n - 1]]][data[n]]
        ELSE pass[CrcUpTo(data, n - 1)][data[n]]

calculateCRC(data) == CrcUpTo(data, Len(data))

\* the four bytes saveDoses writes for one dose
DoseBytes(d) ==
    <<d.time.hour, d.time.minute, IF d.time.isPM THEN 1 ELSE 0,
      IF d.enabled THEN 1 ELSE 0>>

\* the buffer saveDoses fills from dose i (counted from 1) on
RECURSIVE Serialize(_, _)
Serialize(ds, i) ==
    IF i > Len(ds) THEN << >> ELSE DoseBytes(ds[i]) \o Serialize(ds, i + 1)

\* saveDoses writing every dose as an enabled one
saveDoses_enabledDropped(st, ds) ==
    LET buffer == Serialize([i \in 1 .. Len(ds) |-> [ds[i] EXCEPT !.enabled = TRUE]], 1)
    IN  [st EXCEPT !.doseCount = Len(ds), !.doses = buffer,
                   !.crc = calculateCRC(buffer)]

\* Storage::saveDoses for the first Len(ds) doses of the caller's array
saveDoses(st, ds) ==
    LET buffer == Serialize(ds, 1)
    IN  [st EXCEPT !.doseCount = Len(ds), !.doses = buffer,
                   !.crc = calculateCRC(buffer)]

\* Storage::loadDoses: the doses it writes to the caller's array, as many as
\* the count it returns
loadDoses(st) ==
    LET count == st.doseCount
        buffer == st.doses
    IN  IF count = 0 \/ count > MAX_DOSES THEN << >>
        ELSE IF Len(buffer) # count * 4 THEN << >>
        ELSE IF st.crc # calculateCRC(buffer) THEN << >>
        ELSE [i \in 1 .. count |->
                Dose(Time12H(buffer[4 * (i - 1) + 1], buffer[4 * (i - 1) + 2],
                             buffer[4 * (i - 1) + 3] = 1),
                     buffer[4 * (i - 1) + 4] = 1, FALSE, i - 1)]

\* DoseManager::saveToStorage has an empty body
saveToStorage(st, ds) == st

---------------------------------------------------------------------------
(* main.cpp.  The handlers run one after another inside one iteration of   *)
(* loop(); each is a function from the program state w at its entry to the *)
(* program state at its return.                                            *)

World ==
    [systemState |-> systemState, doses |-> doses, alarmController |-> alarmController,
     uiManager |-> uiManager, buttons |-> buttons, lidSensor |-> lidSensor,
     webServer |-> webServer, rtc |-> rtc, millis |-> millis,
     lastTimeCheck |-> lastTimeCheck, editingTime |-> editingTime,
     editField |-> editField, editDate |-> editDate, inListMode |-> inListMode,
     storage |-> storage, lastLoop |-> lastLoop, dismissed |-> dismissed,
     edits |-> edits, alerted |-> alerted]

SetWorld(w) ==
    /\ systemState' = w.systemState
    /\ doses' = w.doses
    /\ alarmController' = w.alarmController
    /\ uiManager' = w.uiManager
    /\ buttons' = w.buttons
    /\ lidSensor' = w.lidSensor
    /\ webServer' = w.webServer
    /\ rtc' = w.rtc
    /\ millis' = w.millis
    /\ lastTimeCheck' = w.lastTimeCheck
    /\ editingTime' = w.editingTime
    /\ editField' = w.editField
    /\ editDate' = w.editDate
    /\ inListMode' = w.inListMode
    /\ storage' = w.storage
    /\ lastLoop' = w.lastLoop
    /\ dismissed' = w.dismissed
    /\ edits' = w.edits
    /\ alerted' = w.alerted

NoDose == [time |-> Time12H(0, 0, FALSE), day |-> 0]

\* the record of a step that is not an iteration of loop()
NoLoop ==
    [woke |-> FALSE, wokeBy |-> {}, tick |-> FALSE, resets |-> 0,
     alertRaised |-> FALSE, lidHandled |-> FALSE, alertHandler |-> FALSE,
     okEvent |-> BTN_NONE, nextEvent |-> BTN_NONE, backEvent |-> BTN_NONE,
     http |-> 0, call |-> "none", step |-> 0, ok |-> FALSE,
     time |-> Time12H(0, 0, FALSE), index |-> 0, result |-> 0,
     event |-> BTN_NONE, emitted |-> [i \in 0 .. BUTTON_COUNT - 1 |-> BTN_NONE],
     request |-> << >>]

\* the input pins before the first reading: no button is down and the lid is
\* shut, as they have been since the start, and no event has been generated
NoInputs ==
    [buttons |-> [i \in 0 .. BUTTON_COUNT - 1 |->
                    [level |-> HIGH, since |-> 0, fresh |-> FALSE, delivered |-> 0,
                     sincePress |-> 0]],
     lid |-> [level |-> LOW, since |-> 0]]

\* ButtonHandler::consumeEvent, the event and the state after it
Event(w, index) == w.buttons[index].pendingEvent

Consume(w, index) == [w EXCEPT !.buttons[index].pendingEvent = BTN_NONE]

Activity(w) == [w EXCEPT !.uiManager = updateActivity(@, w.millis)]

goToHome(w) ==
    Activity([w EXCEPT !.systemState.currentMenu = MENU_HOME,
                       !.systemState.menuSelection = 0])

\* the mute toggle of handleHomeScreen and handleMainMenu (NEXT long press)
ToggleMute(w) ==
    LET mute == ~w.systemState.muteMode
    IN  [w EXCEPT !.systemState.muteMode = mute,
                  !.alarmController = setEnabled(@, ~mute),
                  !.storage = saveSettings(@, w.systemState.alarmEnabled, mute)]

ToggleWiFi(w) ==
    LET on == ~w.systemState.wifiEnabled
    IN  [w EXCEPT !.systemState.wifiEnabled = on,
                  !.webServer = IF on THEN webStart(@) ELSE webStop(@)]

handleHomeScreen(w) ==
    LET okEvent == Event(w, BUTTON_OK)
        w1 == Consume(w, BUTTON_OK)
        w2 == IF okEvent = BTN_SHORT_PRESS
              THEN Activity([w1 EXCEPT !.systemState.currentMenu = MENU_MAIN,
                                       !.systemState.menuSelection = 0])
              ELSE IF okEvent = BTN_LONG_PRESS THEN ToggleWiFi(w1)
              ELSE w1
        nextEvent == Event(w2, BUTTON_NEXT)
        w3 == Consume(w2, BUTTON_NEXT)
        w4 == IF nextEvent = BTN_LONG_PRESS THEN ToggleMute(w3) ELSE w3
    IN  Consume(w4, BUTTON_BACK)

handleMainMenu(w) ==
    LET okEvent == Event(w, BUTTON_OK)
        w1 == Consume(w, BUTTON_OK)
        sel == w1.systemState.menuSelection
        w2 == IF okEvent = BTN_SHORT_PRESS
              THEN Activity(
                     IF sel = 0
                     THEN [w1 EXCEPT !.systemState.currentMenu = MENU_EDIT_DOSES,
                                     !.systemState.menuSelection = 0]
                     ELSE IF sel = 1
                     THEN [w1 EXCEPT !.systemState.currentMenu = MENU_EDIT_TIME,
                                     !.editingTime = w1.rtc.time,
                                     !.editField = 0]
                     ELSE IF sel = 2
                     THEN [w1 EXCEPT !.systemState.currentMenu = MENU_EDIT_DATE,
                                     !.editDate = [day |-> w1.rtc.day,
                                                   month |-> w1.rtc.month,
                                                   year |-> w1.rtc.year],
                                     !.editField = 0]
                     ELSE IF sel = 3
                     THEN [w1 EXCEPT !.systemState.currentMenu = MENU_ALARM_TOGGLE]
                     ELSE IF sel = 4
                     THEN [w1 EXCEPT !.systemState.currentMenu = MENU_WIFI_TOGGLE]
                     ELSE w1)
              ELSE w1
        nextEvent == Event(w2, BUTTON_NEXT)
        w3 == Consume(w2, BUTTON_NEXT)
        w4 == IF nextEvent = BTN_SHORT_PRESS
              THEN Activity([w3 EXCEPT !.systemState.menuSelection =
                                           (@ + 1) % MENU_ITEMS_COUNT])
              ELSE IF nextEvent = BTN_LONG_PRESS THEN ToggleMute(w3)
              ELSE w3
        backEvent == Event(w4, BUTTON_BACK)
        w5 == Consume(w4, BUTTON_BACK)
    IN  IF backEvent = BTN_SHORT_PRESS \/ backEvent = BTN_LONG_PRESS
        THEN goToHome(w5) ELSE w5

handleDoseMenu(w) ==
    LET okEvent == Event(w, BUTTON_OK)
        w1 == Consume(w, BUTTON_OK)
        sel == w1.systemState.menuSelection
        n == Len(w1.doses)
        w2 == IF okEvent = BTN_SHORT_PRESS
              THEN Activity(
                     IF sel = 0
                     THEN (IF n >= MAX_DOSES THEN w1
                           ELSE [w1 EXCEPT !.systemState.currentMenu = MENU_ADD_DOSE,
                                           !.editingTime = Time12H(12, 0, FALSE),
                                           !.editField = 0])
                     ELSE IF sel = 1
                     THEN (IF n = 0 THEN w1
                           ELSE [w1 EXCEPT !.systemState.currentMenu = MENU_EDIT_DOSE,
                                           !.systemState.editIndex = 0])
                     ELSE IF sel = 2
                     THEN (IF n = 0 THEN w1
                           ELSE [w1 EXCEPT !.systemState.currentMenu = MENU_DELETE_DOSE,
                                           !.systemState.editIndex = 0])
                     ELSE IF sel = 3
                     THEN [w1 EXCEPT !.systemState.currentMenu = MENU_MAIN,
                                     !.systemState.menuSelection = 0]
                     ELSE w1)
              ELSE w1
        nextEvent == Event(w2, BUTTON_NEXT)
        w3 == Consume(w2, BUTTON_NEXT)
        w4 == IF nextEvent = BTN_SHORT_PRESS
              THEN Activity([w3 EXCEPT !.systemState.menuSelection =
                                           (@ + 1) % DOSE_MENU_ITEMS_COUNT])
              ELSE w3
        backEvent == Event(w4, BUTTON_BACK)
        w5 == Consume(w4, BUTTON_BACK)
    IN  IF backEvent = BTN_SHORT_PRESS
        THEN [w5 EXCEPT !.systemState.currentMenu = MENU_MAIN,
                        !.systemState.menuSelection = 0]
        ELSE IF backEvent = BTN_LONG_PRESS THEN goToHome(w5)
        ELSE w5

\* handleDoseList: the delete-dose screen
handleDoseList(w) ==
    LET okEvent == Event(w, BUTTON_OK)
        w1 == Consume(w, BUTTON_OK)
        w2 == IF okEvent = BTN_SHORT_PRESS
              THEN LET r == removeDose(w1.doses, w1.systemState.editIndex)
                       a == IF r.ok
                            THEN [w1 EXCEPT !.doses = r.doses,
                                            !.storage = saveToStorage(@, r.doses)]
                            ELSE w1
                       b == IF Len(a.doses) = 0
                            THEN [a EXCEPT !.systemState.currentMenu = MENU_EDIT_DOSES,
                                           !.systemState.menuSelection = 0]
                            ELSE IF a.systemState.editIndex >= Len(a.doses)
                            THEN [a EXCEPT !.systemState.editIndex = Len(a.doses) - 1]
                            ELSE a
                   IN  Activity(b)
              ELSE w1
        nextEvent == Event(w2, BUTTON_NEXT)
        w3 == Consume(w2, BUTTON_NEXT)
        w4 == IF nextEvent = BTN_SHORT_PRESS
              THEN Activity(IF Len(w3.doses) > 0
                            THEN [w3 EXCEPT !.systemState.editIndex =
                                                (@ + 1) % Len(w3.doses)]
                            ELSE w3)
              ELSE w3
        backEvent == Event(w4, BUTTON_BACK)
        w5 == Consume(w4, BUTTON_BACK)
    IN  IF backEvent = BTN_SHORT_PRESS
        THEN [w5 EXCEPT !.systemState.currentMenu = MENU_EDIT_DOSES,
                        !.systemState.menuSelection = 2]
        ELSE IF backEvent = BTN_LONG_PRESS THEN goToHome(w5)
        ELSE w5

\* the NEXT short press of handleDoseEdit and handleTimeEdit
IncrementTimeField(t, field) ==
    IF field = 0 THEN [t EXCEPT !.hour = (@ % 12) + 1]
    ELSE IF field = 1 THEN [t EXCEPT !.minute = (@ + 1) % 60]
    ELSE IF field = 2 THEN [t EXCEPT !.isPM = ~@]
    ELSE t

\* the NEXT short press of handleDateEdit
IncrementDateField(d, field) ==
    IF field = 0 THEN [d EXCEPT !.day = (@ % 31) + 1]
    ELSE IF field = 1 THEN [d EXCEPT !.month = (@ % 12) + 1]
    ELSE IF field = 2 THEN [d EXCEPT !.year = IF @ + 1 > 2099 THEN 2024 ELSE @ + 1]
    ELSE d

\* handleDoseEdit, the branch taken while inListMode: pick the dose to edit.
\* With no dose left (the web API removed them) the NEXT short press computes
\* (editIndex + 1) % 0; the specifications do not take that step.
handleDoseEditList(w) ==
    LET okEvent == Event(w, BUTTON_OK)
        w1 == Consume(w, BUTTON_OK)
        idx == w1.systemState.editIndex
        w2 == IF okEvent = BTN_SHORT_PRESS /\ getDoseExists(w1.doses, idx)
              THEN [w1 EXCEPT !.editingTime = w1.doses[idx + 1].time,
                              !.editField = 0,
                              !.inListMode = FALSE]
              ELSE w1
        nextEvent == Event(w2, BUTTON_NEXT)
        w3 == Consume(w2, BUTTON_NEXT)
        w4 == IF nextEvent = BTN_SHORT_PRESS /\ Len(w3.doses) > 0
              THEN [w3 EXCEPT !.systemState.editIndex = (@ + 1) % Len(w3.doses)]
              ELSE w3
        backEvent == Event(w4, BUTTON_BACK)
        w5 == Consume(w4, BUTTON_BACK)
    IN  IF backEvent = BTN_SHORT_PRESS
        THEN [w5 EXCEPT !.inListMode = TRUE,
                        !.systemState.currentMenu = MENU_EDIT_DOSES,
                        !.systemState.menuSelection = 1]
        ELSE w5

\* handleDoseEdit, the field editor
handleDoseEditFields(w, isNew) ==
    LET okEvent == Event(w, BUTTON_OK)
        w1 == Consume(w, BUTTON_OK)
        w2 == IF okEvent = BTN_SHORT_PRESS
              THEN LET f == w1.editField + 1
                       r == IF isNew THEN addDose(w1.doses, w1.editingTime)
                            ELSE updateDose(w1.doses, w1.systemState.editIndex,
                                            w1.editingTime)
                   IN  Activity(
                         IF f > 2
                         THEN (IF r.ok
                               THEN [w1 EXCEPT !.doses = r.doses,
                                               !.storage = saveToStorage(@, r.doses),
                                               !.systemState.currentMenu = MENU_EDIT_DOSES,
                                               !.systemState.menuSelection =
                                                   IF isNew THEN 0 ELSE 1,
                                               !.editField = 0]
                               ELSE [w1 EXCEPT !.editField = 0])
                         ELSE [w1 EXCEPT !.editField = f])
              ELSE w1
        nextEvent == Event(w2, BUTTON_NEXT)
        w3 == Consume(w2, BUTTON_NEXT)
        w4 == IF nextEvent = BTN_SHORT_PRESS
              THEN Activity([w3 EXCEPT !.editingTime = IncrementTimeField(@, w3.editField),
                                       !.edits = @ + 1])
              ELSE w3
        backEvent == Event(w4, BUTTON_BACK)
        w5 == Consume(w4, BUTTON_BACK)
    IN  IF backEvent = BTN_SHORT_PRESS
        THEN (IF w5.editField > 0
              THEN [w5 EXCEPT !.editField = @ - 1]
              ELSE [w5 EXCEPT !.systemState.currentMenu = MENU_EDIT_DOSES,
                              !.systemState.menuSelection = IF isNew THEN 0 ELSE 1])
        ELSE IF backEvent = BTN_LONG_PRESS THEN goToHome(w5)
        ELSE w5

handleDoseEdit(w, isNew) ==
    IF ~isNew /\ w.systemState.currentMenu = MENU_EDIT_DOSE /\ w.inListMode
    THEN handleDoseEditList(w)
    ELSE handleDoseEditFields(w, isNew)

\* handleTimeEdit with a BACK short press at the first field that saves the time
handleTimeEdit_backSaves(w) ==
    LET okEvent == Event(w, BUTTON_OK)
        w1 == Consume(w, BUTTON_OK)
        w2 == IF okEvent = BTN_SHORT_PRESS
              THEN LET f == w1.editField + 1
                   IN  Activity(
                         IF f > 2
                         THEN [w1 EXCEPT !.rtc = setTime(@, w1.editingTime),
                                         !.systemState.currentMenu = MENU_MAIN,
                                         !.systemState.menuSelection = 1,
                                         !.editField = 0]
                         ELSE [w1 EXCEPT !.editField = f])
              ELSE w1
        nextEvent == Event(w2, BUTTON_NEXT)
        w3 == Consume(w2, BUTTON_NEXT)
        w4 == IF nextEvent = BTN_SHORT_PRESS
              THEN Activity([w3 EXCEPT !.editingTime = IncrementTimeField(@, w3.editField),
                                       !.edits = @ + 1])
              ELSE w3
        backEvent == Event(w4, BUTTON_BACK)
        w5 == Consume(w4, BUTTON_BACK)
    IN  IF backEvent = BTN_SHORT_PRESS
        THEN (IF w5.editField > 0
              THEN [w5 EXCEPT !.editField = @ - 1]
              ELSE [w5 EXCEPT !.rtc = setTime(@, w5.editingTime),
                              !.systemState.currentMenu = MENU_MAIN,
                              !.systemState.menuSelection = 1])
        ELSE IF backEvent = BTN_LONG_PRESS THEN goToHome(w5)
        ELSE w5

handleTimeEdit(w) ==
    LET okEvent == Event(w, BUTTON_OK)
        w1 == Consume(w, BUTTON_OK)
        w2 == IF okEvent = BTN_SHORT_PRESS
              THEN LET f == w1.editField + 1
                   IN  Activity(
                         IF f > 2
                         THEN [w1 EXCEPT !.rtc = setTime(@, w1.editingTime),
                                         !.systemState.currentMenu = MENU_MAIN,
                                         !.systemState.menuSelection = 1,
                                         !.editField = 0]
                         ELSE [w1 EXCEPT !.editField = f])
              ELSE w1
        nextEvent == Event(w2, BUTTON_NEXT)
        w3 == Consume(w2, BUTTON_NEXT)
        w4 == IF nextEvent = BTN_SHORT_PRESS
              THEN Activity([w3 EXCEPT !.editingTime = IncrementTimeField(@, w3.editField),
                                       !.edits = @ + 1])
              ELSE w3
        backEvent == Event(w4, BUTTON_BACK)
        w5 == Consume(w4, BUTTON_BACK)
    IN  IF backEvent = BTN_SHORT_PRESS
        THEN (IF w5.editField > 0
              THEN [w5 EXCEPT !.editField = @ - 1]
              ELSE [w5 EXCEPT !.systemState.currentMenu = MENU_MAIN,
                              !.systemState.menuSelection = 1])
        ELSE IF backEvent = BTN_LONG_PRESS THEN goToHome(w5)
        ELSE w5

handleDateEdit(w) ==
    LET okEvent == Event(w, BUTTON_OK)
        w1 == Consume(w, BUTTON_OK)
        w2 == IF okEvent = BTN_SHORT_PRESS
              THEN LET f == w1.editField + 1
                   IN  Activity(
                         IF f > 2
                         THEN [w1 EXCEPT !.rtc = setDate(@, w1.editDate.day,
                                                         w1.editDate.month,
                                                         w1.editDate.year),
                                         !.systemState.currentMenu = MENU_MAIN,
                                         !.systemState.menuSelection = 2,
                                         !.editField = 0]
                         ELSE [w1 EXCEPT !.editField = f])
              ELSE w1
        nextEvent == Event(w2, BUTTON_NEXT)
        w3 == Consume(w2, BUTTON_NEXT)
        w4 == IF nextEvent = BTN_SHORT_PRESS
              THEN Activity([w3 EXCEPT !.editDate = IncrementDateField(@, w3.editField),
                                       !.edits = @ + 1])
              ELSE w3
        backEvent == Event(w4, BUTTON_BACK)
        w5 == Consume(w4, BUTTON_BACK)
    IN  IF backEvent = BTN_SHORT_PRESS
        THEN (IF w5.editField > 0
              THEN [w5 EXCEPT !.editField = @ - 1]
              ELSE [w5 EXCEPT !.systemState.currentMenu = MENU_MAIN,
                              !.systemState.menuSelection = 2])
        ELSE IF backEvent = BTN_LONG_PRESS THEN goToHome(w5)
        ELSE w5

handleAlarmToggle(w) ==
    LET okEvent == Event(w, BUTTON_OK)
        w1 == Consume(w, BUTTON_OK)
        en == ~w1.systemState.alarmEnabled
        w2 == IF okEvent = BTN_SHORT_PRESS
              THEN Activity([w1 EXCEPT !.systemState.alarmEnabled = en,
                                       !.alarmController = setEnabled(@, en),
                                       !.storage = saveSettings(@, en,
                                                       w1.systemState.muteMode)])
              ELSE w1
        backEvent == Event(w2, BUTTON_BACK)
        w3 == Consume(w2, BUTTON_BACK)
        w4 == IF backEvent = BTN_SHORT_PRESS
              THEN [w3 EXCEPT !.systemState.currentMenu = MENU_MAIN,
                              !.systemState.menuSelection = 3]
              ELSE IF backEvent = BTN_LONG_PRESS THEN goToHome(w3)
              ELSE w3
    IN  Consume(w4, BUTTON_NEXT)

handleWiFiToggle(w) ==
    LET okEvent == Event(w, BUTTON_OK)
        w1 == Consume(w, BUTTON_OK)
        w2 == IF okEvent = BTN_SHORT_PRESS THEN Activity(ToggleWiFi(w1)) ELSE w1
        backEvent == Event(w2, BUTTON_BACK)
        w3 == Consume(w2, BUTTON_BACK)
        w4 == IF backEvent = BTN_SHORT_PRESS
              THEN [w3 EXCEPT !.systemState.currentMenu = MENU_MAIN,
                              !.systemState.menuSelection = 4]
              ELSE IF backEvent = BTN_LONG_PRESS THEN goToHome(w3)
              ELSE w3
    IN  Consume(w4, BUTTON_NEXT)

\* the dose whose alert an OK long press dismisses, for the history variable
DismissedDose(w) ==
    IF getDoseExists(w.doses, w.systemState.activeDoseIndex)
    THEN [time |-> w.doses[w.systemState.activeDoseIndex + 1].time, day |-> w.rtc.day]
    ELSE NoDose

\* handleAlertState with a dismissal that leaves the menu state as it is
handleAlertState_menuKept(w) ==
    LET w1 == IF w.systemState.snoozeActive
                 /\ getSnoozeRemaining(w.alarmController, w.millis) = 0
              THEN [w EXCEPT !.systemState.snoozeActive = FALSE]
              ELSE w
        backEvent == Event(w1, BUTTON_BACK)
        w2 == Consume(w1, BUTTON_BACK)
        w3 == IF backEvent = BTN_SHORT_PRESS /\ ~w2.systemState.snoozeActive
              THEN [w2 EXCEPT !.alarmController = snooze(@, SNOOZE_DURATION, w2.millis),
                              !.systemState.snoozeActive = TRUE]
              ELSE w2
        okEvent == Event(w3, BUTTON_OK)
        w4 == Consume(w3, BUTTON_OK)
        w5 == IF okEvent = BTN_LONG_PRESS
              THEN [w4 EXCEPT !.alarmController = stopAlarm(@),
                              !.systemState.alarmActive = FALSE,
                              !.systemState.snoozeActive = FALSE,
                              !.dismissed = DismissedDose(w4),
                              !.alerted = NoDose]
              ELSE w4
    IN  Consume(w5, BUTTON_NEXT)

handleAlertState(w) ==
    LET w1 == IF w.systemState.snoozeActive
                 /\ getSnoozeRemaining(w.alarmController, w.millis) = 0
              THEN [w EXCEPT !.systemState.snoozeActive = FALSE]
              ELSE w
        backEvent == Event(w1, BUTTON_BACK)
        w2 == Consume(w1, BUTTON_BACK)
        w3 == IF backEvent = BTN_SHORT_PRESS /\ ~w2.systemState.snoozeActive
              THEN [w2 EXCEPT !.alarmController = snooze(@, SNOOZE_DURATION, w2.millis),
                              !.systemState.snoozeActive = TRUE]
              ELSE w2
        okEvent == Event(w3, BUTTON_OK)
        w4 == Consume(w3, BUTTON_OK)
        w5 == IF okEvent = BTN_LONG_PRESS
              THEN [w4 EXCEPT !.alarmController = stopAlarm(@),
                              !.systemState.alarmActive = FALSE,
                              !.systemState.snoozeActive = FALSE,
                              !.systemState.currentMenu = MENU_HOME,
                              !.dismissed = DismissedDose(w4),
                              !.alerted = NoDose]
              ELSE w4
    IN  Consume(w5, BUTTON_NEXT)

\* checkDoseTime without its test for an alert already in progress
checkDoseTime_noActiveTest(w) ==
    IF ~w.systemState.alarmEnabled \/ w.systemState.muteMode THEN w
    ELSE LET doseIndex == DoseManager_checkDoseTime(w.doses, w.rtc.time)
         IN  IF doseIndex >= 0
             THEN [w EXCEPT !.systemState.alarmActive = TRUE,
                            !.systemState.activeDoseIndex = doseIndex,
                            !.systemState.currentMenu = MENU_ALERT,
                            !.alarmController = startAlarm(@, PATTERN_STANDARD, w.millis),
                            !.uiManager = turnOn(@, w.millis),
                            !.lastLoop.alertRaised = TRUE,
                            !.alerted = [time |-> w.doses[doseIndex + 1].time,
                                         day |-> w.rtc.day]]
             ELSE w

\* main.cpp checkDoseTime
checkDoseTime(w) ==
    IF ~w.systemState.alarmEnabled \/ w.systemState.muteMode THEN w
    ELSE IF w.systemState.alarmActive \/ w.systemState.snoozeActive THEN w
    ELSE LET doseIndex == DoseManager_checkDoseTime(w.doses, w.rtc.time)
         IN  IF doseIndex >= 0
             THEN [w EXCEPT !.systemState.alarmActive = TRUE,
                            !.systemState.activeDoseIndex = doseIndex,
                            !.systemState.currentMenu = MENU_ALERT,
                            !.alarmController = startAlarm(@, PATTERN_STANDARD, w.millis),
                            !.uiManager = turnOn(@, w.millis),
                            !.lastLoop.alertRaised = TRUE,
                            !.alerted = [time |-> w.doses[doseIndex + 1].time,
                                         day |-> w.rtc.day]]
             ELSE w

\* checkMidnightReset without its test for a last-seen day of 0
checkMidnightReset_noZeroTest(w) ==
    LET day == w.rtc.day
        w1 == IF day # w.systemState.currentDay
              THEN [w EXCEPT !.doses = resetDailyStatus(@),
                             !.lidSensor = resetDailyCount(@),
                             !.storage = saveLastDay(@, day),
                             !.lastLoop.resets = @ + 1]
              ELSE w
    IN  [w1 EXCEPT !.systemState.currentDay = day]

\* main.cpp checkMidnightReset
checkMidnightReset(w) ==
    LET day == w.rtc.day
        w1 == IF day # w.systemState.currentDay /\ w.systemState.currentDay # 0
              THEN [w EXCEPT !.doses = resetDailyStatus(@),
                             !.lidSensor = resetDailyCount(@),
                             !.storage = saveLastDay(@, day),
                             !.lastLoop.resets = @ + 1]
              ELSE w
    IN  [w1 EXCEPT !.systemState.currentDay = day]

\* loop(): the periodic checks, in the order of the code
PeriodicChecks(w) ==
    IF w.millis - w.lastTimeCheck >= TIME_CHECK_INTERVAL
    THEN checkMidnightReset(checkDoseTime([w EXCEPT !.lastTimeCheck = w.millis,
                                                    !.lastLoop.tick = TRUE]))
    ELSE w

\* loop(): "Handle lid opening during alarm"
LidOpenedDuringAlarm(w) ==
    IF w.systemState.alarmActive
    THEN (IF w.lidSensor.justOpenedFlag
          THEN [w EXCEPT !.lidSensor.justOpenedFlag = FALSE,
                         !.doses = IF w.systemState.activeDoseIndex >= 0
                                   THEN markDoseTaken(@, w.systemState.activeDoseIndex)
                                   ELSE @,
                         !.alarmController = stopAlarm(@),
                         !.systemState.alarmActive = FALSE,
                         !.systemState.snoozeActive = FALSE,
                         !.systemState.activeDoseIndex = -1,
                         !.systemState.currentMenu = MENU_HOME,
                         !.lastLoop.lidHandled = TRUE,
                         !.alerted = NoDose]
          ELSE w)
    ELSE w

\* loop(): the switch on systemState.currentMenu
StateHandler(w) ==
    LET m == w.systemState.currentMenu
        v == [w EXCEPT !.lastLoop.alertHandler = (m = MENU_ALERT)]
    IN  IF m = MENU_HOME THEN handleHomeScreen(v)
        ELSE IF m = MENU_MAIN THEN handleMainMenu(v)
        ELSE IF m = MENU_EDIT_DOSES THEN handleDoseMenu(v)
        ELSE IF m = MENU_ADD_DOSE THEN handleDoseEdit(v, TRUE)
        ELSE IF m = MENU_EDIT_DOSE THEN handleDoseEdit(v, FALSE)
        ELSE IF m = MENU_DELETE_DOSE THEN handleDoseList(v)
        ELSE IF m = MENU_EDIT_TIME THEN handleTimeEdit(v)
        ELSE IF m = MENU_EDIT_DATE THEN handleDateEdit(v)
        ELSE IF m = MENU_ALARM_TOGGLE THEN handleAlarmToggle(v)
        ELSE IF m = MENU_WIFI_TOGGLE THEN handleWiFiToggle(v)
        ELSE IF m = MENU_ALERT THEN handleAlertState(v)
        ELSE v

\* the screen timeout of loop() without its test for an alert
ScreenTimeout_duringAlarm(w) ==
    LET r == checkTimeout(w.uiManager, w.millis)
    IN  IF r.fired
        THEN [w EXCEPT !.uiManager = r.ui, !.systemState.currentMenu = MENU_HOME]
        ELSE w

\* loop(): "Check screen timeout (not during alarm)"
ScreenTimeout(w) ==
    IF ~w.systemState.alarmActive
    THEN LET r == checkTimeout(w.uiManager, w.millis)
         IN  IF r.fired
             THEN [w EXCEPT !.uiManager = r.ui, !.systemState.currentMenu = MENU_HOME]
             ELSE w
    ELSE w

\* loop() with the switch on the menu state ahead of the lid handling
LoopBody_handlerFirst(w, btnIn, lidIn) ==
    LET w1 == [w EXCEPT !.lastLoop = NoLoop,
                        !.buttons = ButtonHandlerUpdate(@, btnIn),
                        !.lidSensor = LidSensorUpdate(@, lidIn),
                        !.alarmController = AlarmUpdate(@, w.millis)]
        w2 == [w1 EXCEPT !.lastLoop.okEvent = Event(w1, BUTTON_OK),
                         !.lastLoop.nextEvent = Event(w1, BUTTON_NEXT),
                         !.lastLoop.backEvent = Event(w1, BUTTON_BACK)]
    IN  IF anyButtonPressed(w2.buttons) /\ ~w2.uiManager.displayOn
        THEN [w2 EXCEPT !.uiManager = turnOn(@, w2.millis),
                        !.buttons = clearEvents(@),
                        !.lastLoop.woke = TRUE,
                        !.lastLoop.wokeBy = {i \in 0 .. BUTTON_COUNT - 1 :
                                               /\ w.buttons[i].currentState = HIGH
                                               /\ w2.buttons[i].currentState = LOW}]
        ELSE ScreenTimeout(LidOpenedDuringAlarm(StateHandler(PeriodicChecks(w2))))

\* one iteration of loop(); btnIn[i] and lidIn are what the pins show
LoopBody(w, btnIn, lidIn) ==
    LET w1 == [w EXCEPT !.lastLoop = NoLoop,
                        !.buttons = ButtonHandlerUpdate(@, btnIn),
                        !.lidSensor = LidSensorUpdate(@, lidIn),
                        !.alarmController = AlarmUpdate(@, w.millis)]
        w2 == [w1 EXCEPT !.lastLoop.okEvent = Event(w1, BUTTON_OK),
                         !.lastLoop.nextEvent = Event(w1, BUTTON_NEXT),
                         !.lastLoop.backEvent = Event(w1, BUTTON_BACK)]
    IN  IF anyButtonPressed(w2.buttons) /\ ~w2.uiManager.displayOn
        THEN [w2 EXCEPT !.uiManager = turnOn(@, w2.millis),
                        !.buttons = clearEvents(@),
                        !.lastLoop.woke = TRUE,
                        !.lastLoop.wokeBy = {i \in 0 .. BUTTON_COUNT - 1 :
                                               /\ w.buttons[i].currentState = HIGH
                                               /\ w2.buttons[i].currentState = LOW}]
        ELSE ScreenTimeout(StateHandler(LidOpenedDuringAlarm(PeriodicChecks(w2))))

---------------------------------------------------------------------------
(* PillBoxWebServer.cpp: the request handlers.  A request is served only   *)
(* while the server is running; the JSON body is the parameter.  Each      *)
(* answers with an HTTP status, kept in lastLoop.http.                     *)

WebStep(code) == [NoLoop EXCEPT !.http = code]

handleSetAlarm(enabled) ==
    /\ webServer.running
    /\ alarmController' = setEnabled(alarmController, enabled)
    /\ lastLoop' = WebStep(200)
    /\ UNCHANGED <<systemState, doses, uiManager, buttons, lidSensor, webServer, rtc,
                   millis, lastTimeCheck, editingTime, editField, editDate, inListMode,
                   storage, dismissed, advances, presses, edits, inputs,
      alerted>>

handleAddDose(time) ==
    /\ webServer.running
    /\ LET r == addDose(doses, time)
       IN  IF ~isValidTime(time)
           THEN /\ doses' = doses
                /\ storage' = storage
                /\ lastLoop' = WebStep(400)
           ELSE IF ~r.ok
           THEN /\ doses' = doses
                /\ storage' = storage
                /\ lastLoop' = WebStep(400)
           ELSE /\ doses' = r.doses
                /\ storage' = saveToStorage(storage, r.doses)
                /\ lastLoop' = WebStep(200)
    /\ UNCHANGED <<systemState, alarmController, uiManager, buttons, lidSensor, webServer,
                   rtc, millis, lastTimeCheck, editingTime, editField, editDate,
                   inListMode, dismissed, advances, presses, edits, inputs,
      alerted>>

handleDeleteDose(id) ==
    /\ webServer.running
    /\ LET r == removeDose(doses, id)
       IN  IF ~r.ok
           THEN /\ doses' = doses
                /\ storage' = storage
                /\ lastLoop' = WebStep(400)
           ELSE /\ doses' = r.doses
                /\ storage' = saveToStorage(storage, r.doses)
                /\ lastLoop' = WebStep(200)
    /\ UNCHANGED <<systemState, alarmController, uiManager, buttons, lidSensor, webServer,
                   rtc, millis, lastTimeCheck, editingTime, editField, editDate,
                   inListMode, dismissed, advances, presses, edits, inputs,
      alerted>>

\* the part of the state a request for the clock or the unlock flag leaves
\* alone
ClockRequestOthers ==
    <<systemState, doses, alarmController, uiManager, buttons, lidSensor, millis,
      lastTimeCheck, editingTime, editField, editDate, inListMode, storage,
      dismissed, advances, presses, edits, inputs,
      alerted>>

\* POST /api/time
handleSetTime(time) ==
    /\ webServer.running
    /\ IF ~webServer.timeEditUnlocked
       THEN /\ rtc' = rtc
            /\ lastLoop' = [WebStep(403) EXCEPT !.call = "handleSetTime"]
       ELSE IF ~isValidTime(time)
       THEN /\ rtc' = rtc
            /\ lastLoop' = [WebStep(400) EXCEPT !.call = "handleSetTime"]
       ELSE /\ rtc' = setTime(rtc, time)
            /\ lastLoop' = [WebStep(200) EXCEPT !.call = "handleSetTime"]
    /\ UNCHANGED webServer
    /\ UNCHANGED ClockRequestOthers

\* POST /api/date
handleSetDate(day, month, year) ==
    /\ webServer.running
    /\ IF ~webServer.timeEditUnlocked
       THEN /\ rtc' = rtc
            /\ lastLoop' = [WebStep(403) EXCEPT !.call = "handleSetDate"]
       ELSE IF day < 1 \/ day > 31 \/ month < 1 \/ month > 12
                  \/ year < 2000 \/ year > 2099
       THEN /\ rtc' = rtc
            /\ lastLoop' = [WebStep(400) EXCEPT !.call = "handleSetDate"]
       ELSE /\ rtc' = setDate(rtc, day, month, year)
            /\ lastLoop' = [WebStep(200) EXCEPT !.call = "handleSetDate"]
    /\ UNCHANGED webServer
    /\ UNCHANGED ClockRequestOthers

\* POST /api/unlock-time; no callback is registered
handleUnlockTime(unlock) ==
    /\ webServer.running
    /\ webServer' = [webServer EXCEPT !.timeEditUnlocked = unlock]
    /\ lastLoop' = [WebStep(200) EXCEPT !.call = "handleUnlockTime"]
    /\ UNCHANGED rtc
    /\ UNCHANGED ClockRequestOthers

\* the loop of handleSetDoses over the request's array, from element k on
RECURSIVE AddEach(_, _, _)
AddEach(ds, list, k) ==
    IF k > Len(list) THEN ds
    ELSE AddEach(IF isValidTime(list[k]) THEN addDose(ds, list[k]).doses ELSE ds,
                 list, k + 1)

\* POST /api/doses with the array list; lastLoop keeps the array
handleSetDoses(list) ==
    /\ webServer.running
    /\ doses' = AddEach(clearAllDoses(doses), list, 1)
    /\ storage' = saveToStorage(storage, doses')
    /\ lastLoop' = [WebStep(200) EXCEPT !.call = "handleSetDoses", !.request = list]
    /\ UNCHANGED <<systemState, alarmController, uiManager, buttons, lidSensor, webServer,
                   rtc, millis, lastTimeCheck, editingTime, editField, editDate,
                   inListMode, dismissed, advances, presses, edits, inputs,
      alerted>>

---------------------------------------------------------------------------
(* Bounds of the model and the inputs the environment offers               *)

MaxAdvances == 2
MaxEdits == 0
MaxDay == 2
MaxOpenings == 1
MaxHeld == 1
MaxPresses == 3
MaxDeleteId == 1

\* the steps millis() makes between two iterations: one check interval, and
\* a wait that ends less than a second before a snooze does
TickSteps == {TIME_CHECK_INTERVAL}
SnoozeSteps == {TIME_CHECK_INTERVAL, SNOOZE_DURATION * 1000 - 500}

\* the times of day the RTC is read at, in the order of the day
ClockTimes == <<Time12H(8, 0, FALSE), Time12H(8, 0, TRUE)>>

\* the dose times a web client sends
WebDoseTimes == {Time12H(7, 0, FALSE), Time12H(8, 0, FALSE)}

\* the dose time of a schedule with one dose a day
DailyDoseTimes == {Time12H(8, 0, FALSE)}

\* the dose times of a schedule with a dose at each time the RTC is read at
OverlapDoseTimes == {Time12H(8, 0, FALSE), Time12H(8, 0, TRUE)}

WebDoseLists == {<< >>, <<Time12H(12, 0, TRUE)>>,
                 <<Time12H(12, 0, TRUE), Time12H(12, 10, TRUE)>>}

\* the arrays a web client sends to replace the schedule: those of
\* WebDoseLists and one with a time that is no time of day
WebReplaceLists ==
    WebDoseLists \cup {<<Time12H(8, 0, FALSE), Time12H(13, 0, FALSE)>>}

\* the times and the days of January 2024 a web client writes to the clock
WebClockTimes == {Time12H(8, 0, TRUE), Time12H(13, 0, FALSE)}
WebClockDays == {0, 2}

\* the user at the edit screens: the number of increments of a field and the
\* number of presses
MaxFieldEdits == 1
MaxEditPresses == 8

\* the storage on its own: the longest array of doses a caller saves, the
\* doses in it, and an array of MAX_DOSES doses
MaxStored == 2
StoredTimes ==
    {Time12H(12, 0, FALSE), Time12H(8, 7, FALSE), Time12H(1, 59, TRUE),
     Time12H(12, 30, TRUE)}
StoredDoses ==
    {Dose(t, en, tk, i) : t \in StoredTimes, en \in BOOLEAN, tk \in BOOLEAN, i \in {0}}
FullArray ==
    [i \in 1 .. MAX_DOSES |->
        Dose(Time12H(((i - 1) % 12) + 1, 5 * i, i > 6), i % 3 # 0, i % 2 = 0, i - 1)]

\* the scheduler on its own: the indexes its callers pass, the times they
\* ask for (10 and 15 minutes from 8:00 AM, 10 minutes apart over midnight,
\* and three that are no time of day) and a schedule of six doses that a
\* client sends whole, in no order
MaxIndex == 1
MaxFlagged == 1
SchedTimes ==
    {Time12H(8, 0, FALSE), Time12H(8, 10, FALSE), Time12H(8, 15, FALSE),
     Time12H(12, 0, TRUE), Time12H(6, 0, TRUE),
     Time12H(11, 55, TRUE), Time12H(12, 5, FALSE),
     Time12H(0, 0, FALSE), Time12H(13, 0, FALSE), Time12H(8, 60, FALSE)}
\* the times of day the scheduler is asked about
CheckTimes ==
    {Time12H(12, 5, FALSE), Time12H(8, 0, FALSE), Time12H(12, 0, TRUE),
     Time12H(8, 0, TRUE)}
NightList ==
    <<Time12H(5, 0, FALSE), Time12H(1, 0, FALSE), Time12H(3, 0, FALSE),
      Time12H(2, 0, FALSE), Time12H(4, 0, FALSE), Time12H(2, 0, TRUE)>>

\* the alarm engine on its own: the number of waits between calls, the
\* waits, the patterns started and the snoozes asked for
MaxWaits == 6
EngineSteps == {200, 1000}
EnginePatterns == {PATTERN_GENTLE, PATTERN_STANDARD, PATTERN_URGENT}
SnoozeSeconds == {2}

\* the button handler on its own: the number of waits between calls, the
\* readings of the pins when the OK button only is touched, and the waits:
\* half the debounce window, just over the window, and what is left of the
\* long-press time
MaxButtonWaits == 5
OkReadings ==
    {f \in [0 .. BUTTON_COUNT - 1 -> {LOW, HIGH}] :
        f[BUTTON_NEXT] = HIGH /\ f[BUTTON_BACK] = HIGH}
ButtonSteps ==
    {DEBOUNCE_DELAY \div 2, DEBOUNCE_DELAY + 1,
     LONG_PRESS_DURATION - (DEBOUNCE_DELAY + 1)}

\* the lid sensor on its own: the waits between calls, which add up to one
\* millisecond less than the longer window and to the window itself
LidSteps ==
    {DEBOUNCE_DELAY + 1, LID_DEBOUNCE_DURATION - (DEBOUNCE_DELAY + 2),
     LID_DEBOUNCE_DURATION - (DEBOUNCE_DELAY + 1)}

ButtonInputVectors == [0 .. BUTTON_COUNT - 1 -> ButtonInputs]

\* the inputs of a user who leaves the NEXT button alone
OkBackInputs == {f \in ButtonInputVectors : f[BUTTON_NEXT] = "idle"}

\* the inputs of a user who touches the OK button only
OkInputs == {f \in OkBackInputs : f[BUTTON_BACK] = "idle"}

\* the inputs of a user whose long presses are on the OK button
EditInputs ==
    {f \in ButtonInputVectors : f[BUTTON_NEXT] # "long" /\ f[BUTTON_BACK] # "long"}

\* the number of buttons held down
HeldCount(bs) == Cardinality({i \in 0 .. BUTTON_COUNT - 1 : bs[i].currentState = LOW})

SETUP_DELAY == 1000

---------------------------------------------------------------------------
(* The state at the first iteration of loop(), after setup()               *)

initializeSystem(alarmEn, mute, lastDay) ==
    /\ storage = [alarmEn |-> alarmEn, muteMode |-> mute, lastDay |-> lastDay,
                  doseCount |-> 0, doses |-> << >>, crc |-> 0]
    /\ systemState =
          [alarmEnabled |-> alarmEn, wifiEnabled |-> FALSE, muteMode |-> mute,
           alarmActive |-> FALSE, snoozeActive |-> FALSE,
           currentMenu |-> MENU_HOME, menuSelection |-> 0, editIndex |-> 0,
           activeDoseIndex |-> -1, currentDay |-> lastDay]
    /\ alarmController = setEnabled(AlarmBegin, alarmEn)
    /\ doses = << >>
    /\ uiManager = [displayOn |-> TRUE, lastActivity |-> SETUP_DELAY]
    /\ buttons = [i \in 0 .. BUTTON_COUNT - 1 |-> ButtonBegin]
    /\ \E open \in {FALSE} : lidSensor = LidBegin(open)
    /\ webServer = [running |-> FALSE, timeEditUnlocked |-> FALSE]
    /\ rtc = [time |-> ClockTimes[1], day |-> 1, month |-> 1, year |-> 2024]
    /\ millis = 2 * SETUP_DELAY
    /\ lastTimeCheck = 0
    /\ editingTime = Time12H(12, 0, FALSE)
    /\ editField = 0
    /\ editDate = [day |-> 0, month |-> 0, year |-> 0]
    /\ inListMode = TRUE
    /\ lastLoop = NoLoop
    /\ dismissed = NoDose
    /\ advances = 0
    /\ presses = 0
    /\ edits = 0
    /\ inputs = NoInputs
    /\ alerted = NoDose

\* the device starts with the settings an earlier run has stored
Init == \E alarmEn \in BOOLEAN, mute \in BOOLEAN : initializeSystem(alarmEn, mute, 0)

\* the device starts with nothing stored: Storage::loadSettings' defaults
InitDefaults == initializeSystem(TRUE, FALSE, 0)

---------------------------------------------------------------------------
(* The steps                                                               *)

\* the iteration would evaluate (editIndex + 1) % 0 in handleDoseEdit
DivideByZero(btnIn) ==
    /\ systemState.currentMenu = MENU_EDIT_DOSE
    /\ inListMode
    /\ Len(doses) = 0
    /\ btnIn[BUTTON_NEXT] = "release"

Loop(btnIn, lidIn) ==
    /\ \A i \in 0 .. BUTTON_COUNT - 1 : ButtonInputValid(buttons[i], btnIn[i])
    /\ lidIn = "change" /\ ~lidSensor.lidOpen => lidSensor.openingsToday < MaxOpenings
    /\ ~DivideByZero(btnIn)
    /\ SetWorld(LoopBody(World, btnIn, lidIn))
    /\ edits' <= MaxEdits
    /\ HeldCount(buttons') <= MaxHeld
    /\ presses' = presses + Cardinality({i \in 0 .. BUTTON_COUNT - 1 : btnIn[i] = "press"})
    /\ presses' <= MaxPresses
    /\ UNCHANGED <<advances, inputs>>

AdvanceMillis(dt) ==
    /\ advances < MaxAdvances
    /\ millis' = millis + dt
    /\ advances' = advances + 1
    /\ lastLoop' = NoLoop
    /\ UNCHANGED <<systemState, doses, alarmController, uiManager, buttons, lidSensor,
                   webServer, rtc, lastTimeCheck, editingTime, editField, editDate,
                   inListMode, storage, dismissed, presses, edits, inputs,
      alerted>>

\* the RTC reaches the next of ClockTimes, the first of the next day after the last
RtcNext(clock) ==
    LET k == CHOOSE i \in 1 .. Len(ClockTimes) : ClockTimes[i] = clock.time
    IN  IF k < Len(ClockTimes) THEN [clock EXCEPT !.time = ClockTimes[k + 1]]
        ELSE [clock EXCEPT !.time = ClockTimes[1], !.day = @ + 1]

RtcAdvance ==
    /\ \E i \in 1 .. Len(ClockTimes) : ClockTimes[i] = rtc.time
    /\ RtcNext(rtc).day <= MaxDay
    /\ rtc' = RtcNext(rtc)
    /\ lastLoop' = NoLoop
    /\ UNCHANGED <<systemState, doses, alarmController, uiManager, buttons, lidSensor,
                   webServer, millis, lastTimeCheck, editingTime, editField, editDate,
                   inListMode, storage, dismissed, advances, presses, edits, inputs,
      alerted>>

\* A user in front of the device who uses the OK and BACK buttons and opens
\* the lid, within one day; doses arrive over the network.
Next ==
    \/ \E btnIn \in OkBackInputs, lidIn \in LidOpening(lidSensor) : Loop(btnIn, lidIn)
    \/ \E dt \in TickSteps : AdvanceMillis(dt)
    \/ \E time \in WebDoseTimes : handleAddDose(time)

Spec == InitDefaults /\ [][Next]_vars

\* A user in front of an alert who snoozes it and waits: no lid, no day
\* change, and waits long enough for a snooze to run down.
NextSnooze ==
    \/ \E btnIn \in OkBackInputs : Loop(btnIn, "idle")
    \/ \E dt \in SnoozeSteps : AdvanceMillis(dt)
    \/ \E time \in WebDoseTimes : handleAddDose(time)

SpecSnooze == InitDefaults /\ [][NextSnooze]_vars

\* The device over a change of day: doses arrive over the network, the lid
\* is opened, the OK button is the only one touched.
NextDay ==
    \/ \E btnIn \in OkInputs, lidIn \in LidOpening(lidSensor) : Loop(btnIn, lidIn)
    \/ \E dt \in TickSteps : AdvanceMillis(dt)
    \/ RtcAdvance
    \/ \E time \in DailyDoseTimes : handleAddDose(time)

SpecDay == InitDefaults /\ [][NextDay]_vars

\* The device under network commands: the alarm is enabled and disabled
\* and doses are added over the network, the OK button is the only one
\* touched and the lid stays shut.
NextNetwork ==
    \/ \E btnIn \in OkInputs : Loop(btnIn, "idle")
    \/ \E dt \in TickSteps : AdvanceMillis(dt)
    \/ \E enabled \in BOOLEAN : handleSetAlarm(enabled)
    \/ \E time \in WebDoseTimes : handleAddDose(time)

SpecNetwork == Init /\ [][NextNetwork]_vars

\* An alert that is still in progress, ringing or snoozed, when the time of
\* the next dose comes: doses arrive over the network, the user snoozes with
\* BACK (short presses) and dismisses with OK, the lid stays shut.
NextOverlap ==
    \/ \E btnIn \in OkBackInputs \cap EditInputs : Loop(btnIn, "idle")
    \/ \E dt \in TickSteps : AdvanceMillis(dt)
    \/ RtcAdvance
    \/ \E time \in OverlapDoseTimes : handleAddDose(time)

SpecOverlap == InitDefaults /\ [][NextOverlap]_vars

\* A web client that manages the schedule and the clock: the user turns WiFi
\* on and off with the OK button, doses are added, deleted and replaced over
\* the network, and the clock is unlocked, locked and written.
NextWeb ==
    \/ \E btnIn \in OkInputs : Loop(btnIn, "idle")
    \/ \E time \in WebDoseTimes : handleAddDose(time)
    \/ \E id \in 0 .. MaxDeleteId : handleDeleteDose(id)
    \/ \E list \in WebReplaceLists : handleSetDoses(list)
    \/ \E time \in WebClockTimes : handleSetTime(time)
    \/ \E day \in WebClockDays : handleSetDate(day, 1, 2024)
    \/ \E unlock \in BOOLEAN : handleUnlockTime(unlock)

SpecWeb == InitDefaults /\ [][NextWeb]_vars

---------------------------------------------------------------------------
(* The alarm engine on its own: any caller, any order of calls.  The clock *)
(* moves between calls; millis() does not wrap within a run.               *)

\* the part of the state a call to the engine leaves alone
EngineOthers ==
    <<systemState, doses, uiManager, buttons, lidSensor, webServer, rtc,
      lastTimeCheck, editingTime, editField, editDate, inListMode, storage,
      dismissed, presses, edits, inputs,
      alerted>>

\* a call that leaves the engine as a; lastLoop keeps its name and the
\* pattern step it found
EngineCall(name, a) ==
    /\ alarmController' = a
    /\ lastLoop' = [NoLoop EXCEPT !.call = name, !.step = alarmController.patternStep]
    /\ UNCHANGED <<millis, advances>>
    /\ UNCHANGED EngineOthers

EngineStartAlarm(pattern) ==
    EngineCall("startAlarm", startAlarm(alarmController, pattern, millis))

EngineStopAlarm == EngineCall("stopAlarm", stopAlarm(alarmController))

EngineSnooze(seconds) ==
    EngineCall("snooze", snooze(alarmController, seconds, millis))

EngineUpdate == EngineCall("update", AlarmUpdate(alarmController, millis))

EngineSetEnabled(enabled) ==
    EngineCall("setEnabled", setEnabled(alarmController, enabled))

\* millis() moves on by dt between two calls
EngineWait(dt) ==
    /\ advances < MaxWaits
    /\ millis' = millis + dt
    /\ advances' = advances + 1
    /\ lastLoop' = NoLoop
    /\ UNCHANGED alarmController
    /\ UNCHANGED EngineOthers

NextEngine ==
    \/ \E pattern \in EnginePatterns : EngineStartAlarm(pattern)
    \/ EngineStopAlarm
    \/ \E seconds \in SnoozeSeconds : EngineSnooze(seconds)
    \/ EngineUpdate
    \/ \E enabled \in BOOLEAN : EngineSetEnabled(enabled)
    \/ \E dt \in EngineSteps : EngineWait(dt)

SpecEngine == InitDefaults /\ [][NextEngine]_vars

---------------------------------------------------------------------------
(* The dose scheduler on its own: any caller, any order of calls.          *)

\* the part of the state a call to the scheduler leaves alone
SchedOthers ==
    <<systemState, alarmController, uiManager, buttons, lidSensor, webServer, rtc,
      millis, lastTimeCheck, editingTime, editField, editDate, inListMode,
      storage, dismissed, advances, presses, edits, inputs,
      alerted>>

\* a call that leaves the schedule as ds; lastLoop keeps its name, the index
\* and the time it was given and what it returned
SchedCall(name, index, time, ok, ds) ==
    /\ doses' = ds
    /\ lastLoop' = [NoLoop EXCEPT !.call = name, !.index = index, !.time = time,
                                  !.ok = ok]
    /\ UNCHANGED SchedOthers

SchedAddDose(time) ==
    LET r == addDose(doses, time) IN SchedCall("addDose", 0, time, r.ok, r.doses)

SchedUpdateDose(index, time) ==
    LET r == updateDose(doses, index, time)
    IN  SchedCall("updateDose", index, time, r.ok, r.doses)

SchedRemoveDose(index) ==
    LET r == removeDose(doses, index)
    IN  SchedCall("removeDose", index, NoLoop.time, r.ok, r.doses)

\* the doses of ds that are disabled or taken
Flagged(ds) == {k \in 1 .. Len(ds) : ~ds[k].enabled \/ ds[k].taken}

SchedSetDoseEnabled(index, enabled) ==
    /\ Cardinality(Flagged(setDoseEnabled(doses, index, enabled))) <= MaxFlagged
    /\ SchedCall("setDoseEnabled", index, NoLoop.time, TRUE,
                 setDoseEnabled(doses, index, enabled))

SchedMarkDoseTaken(index) ==
    /\ Cardinality(Flagged(markDoseTaken(doses, index))) <= MaxFlagged
    /\ SchedCall("markDoseTaken", index, NoLoop.time, TRUE, markDoseTaken(doses, index))

\* lastLoop keeps the number of taken doses the call found
SchedResetDailyStatus ==
    /\ doses' = resetDailyStatus(doses)
    /\ lastLoop' = [NoLoop EXCEPT !.call = "resetDailyStatus",
                                  !.result = Cardinality({k \in 1 .. Len(doses) :
                                                            doses[k].taken})]
    /\ UNCHANGED SchedOthers

\* the scheduler is asked for the dose due at time; lastLoop keeps the answer
SchedCheckDoseTime(time) ==
    /\ lastLoop' = [NoLoop EXCEPT !.call = "checkDoseTime", !.time = time,
                                  !.result = DoseManager_checkDoseTime(doses, time)]
    /\ UNCHANGED doses
    /\ UNCHANGED SchedOthers

\* the scheduler is asked for the next dose after time; lastLoop keeps the
\* answer
SchedGetNextDose(time) ==
    /\ lastLoop' = [NoLoop EXCEPT !.call = "getNextDose", !.time = time,
                                  !.result = getNextDose(doses, time)]
    /\ UNCHANGED doses
    /\ UNCHANGED SchedOthers

\* the schedule is replaced as handleSetDoses replaces it
SchedReplace(list) ==
    SchedCall("replace", 0, NoLoop.time, TRUE, AddEach(clearAllDoses(doses), list, 1))

NextScheduler ==
    \/ \E time \in SchedTimes : SchedAddDose(time)
    \/ \E index \in 0 .. MaxIndex, time \in SchedTimes : SchedUpdateDose(index, time)
    \/ \E index \in 0 .. MaxIndex : SchedRemoveDose(index)
    \/ \E index \in 0 .. MaxIndex, enabled \in BOOLEAN :
          SchedSetDoseEnabled(index, enabled)
    \/ \E index \in 0 .. MaxIndex : SchedMarkDoseTaken(index)
    \/ SchedResetDailyStatus
    \/ \E list \in WebDoseLists : SchedReplace(list)
    \/ \E time \in CheckTimes : SchedCheckDoseTime(time)
    \/ \E time \in CheckTimes : SchedGetNextDose(time)

SpecScheduler == InitDefaults /\ [][NextScheduler]_vars

\* The scheduler filled up: a client sends the six doses of NightList, and
\* doses are added, and the first dose is removed, disabled or taken.
NextCapacity ==
    \/ SchedReplace(NightList)
    \/ \E time \in SchedTimes : SchedAddDose(time)
    \/ SchedRemoveDose(0)
    \/ SchedSetDoseEnabled(0, FALSE)
    \/ SchedMarkDoseTaken(0)

SpecCapacity == InitDefaults /\ [][NextCapacity]_vars

\* A web client that changes the schedule while the device alerts: the user
\* turns WiFi on with the OK button and opens the lid, the time checks come,
\* and doses are added, deleted and replaced over the network.
NextAlertWeb ==
    \/ \E btnIn \in OkInputs, lidIn \in LidOpening(lidSensor) : Loop(btnIn, lidIn)
    \/ \E dt \in TickSteps : AdvanceMillis(dt)
    \/ \E time \in WebDoseTimes : handleAddDose(time)
    \/ \E id \in 0 .. MaxDeleteId : handleDeleteDose(id)
    \/ \E list \in WebDoseLists : handleSetDoses(list)

SpecAlertWeb == InitDefaults /\ [][NextAlertWeb]_vars

\* A user at the edit screens who uses the three buttons, OK alone for long
\* presses; the lid stays shut, no time passes and a dose arrives over the
\* network.
EditLoop(btnIn) ==
    /\ \A i \in 0 .. BUTTON_COUNT - 1 : ButtonInputValid(buttons[i], btnIn[i])
    /\ ~DivideByZero(btnIn)
    /\ SetWorld(LoopBody(World, btnIn, "idle"))
    /\ edits' <= MaxFieldEdits
    /\ HeldCount(buttons') <= MaxHeld
    /\ presses' = presses + Cardinality({i \in 0 .. BUTTON_COUNT - 1 : btnIn[i] = "press"})
    /\ presses' <= MaxEditPresses
    /\ UNCHANGED <<advances, inputs>>

NextEdit ==
    \/ \E btnIn \in EditInputs : EditLoop(btnIn)
    \/ handleAddDose(Time12H(8, 0, TRUE))

SpecEdit == InitDefaults /\ [][NextEdit]_vars

\* A user who goes through the menus with the three buttons and toggles the
\* mute mode and the alarm; the lid stays shut and no time passes.
NextSettings == \E btnIn \in ButtonInputVectors : EditLoop(btnIn)

SpecSettings == InitDefaults /\ [][NextSettings]_vars

---------------------------------------------------------------------------
(* The storage on its own: a caller saves an array of valid doses and      *)
(* loads it back.                                                          *)

StorageOthers ==
    <<systemState, alarmController, uiManager, buttons, lidSensor, webServer, rtc,
      millis, lastTimeCheck, editingTime, editField, editDate, inListMode,
      dismissed, advances, presses, edits, inputs,
      alerted>>

StorageSaveDoses ==
    /\ Len(doses) <= MAX_DOSES
    /\ storage' = saveDoses(storage, doses)
    /\ lastLoop' = [NoLoop EXCEPT !.call = "saveDoses", !.result = Len(doses)]
    /\ UNCHANGED doses
    /\ UNCHANGED StorageOthers

StorageLoadDoses ==
    /\ doses' = loadDoses(storage)
    /\ lastLoop' = [NoLoop EXCEPT !.call = "loadDoses", !.result = Len(doses')]
    /\ UNCHANGED storage
    /\ UNCHANGED StorageOthers

\* the storage is new and the caller holds an array of valid doses
InitStorage ==
    /\ doses \in UNION {[1 .. n -> StoredDoses] : n \in 0 .. MaxStored} \cup {FullArray}
    /\ storage = [alarmEn |-> TRUE, muteMode |-> FALSE, lastDay |-> 0,
                  doseCount |-> 0, doses |-> << >>, crc |-> 0]
    /\ systemState =
          [alarmEnabled |-> TRUE, wifiEnabled |-> FALSE, muteMode |-> FALSE,
           alarmActive |-> FALSE, snoozeActive |-> FALSE,
           currentMenu |-> MENU_HOME, menuSelection |-> 0, editIndex |-> 0,
           activeDoseIndex |-> -1, currentDay |-> 0]
    /\ alarmController = setEnabled(AlarmBegin, TRUE)
    /\ uiManager = [displayOn |-> TRUE, lastActivity |-> SETUP_DELAY]
    /\ buttons = [i \in 0 .. BUTTON_COUNT - 1 |-> ButtonBegin]
    /\ lidSensor = LidBegin(FALSE)
    /\ webServer = [running |-> FALSE, timeEditUnlocked |-> FALSE]
    /\ rtc = [time |-> ClockTimes[1], day |-> 1, month |-> 1, year |-> 2024]
    /\ millis = 2 * SETUP_DELAY
    /\ lastTimeCheck = 0
    /\ editingTime = Time12H(12, 0, FALSE)
    /\ editField = 0
    /\ editDate = [day |-> 0, month |-> 0, year |-> 0]
    /\ inListMode = TRUE
    /\ lastLoop = NoLoop
    /\ dismissed = NoDose
    /\ advances = 0
    /\ presses = 0
    /\ edits = 0
    /\ inputs = NoInputs
    /\ alerted = NoDose

NextStorage == StorageSaveDoses \/ StorageLoadDoses

SpecStorage == InitStorage /\ [][NextStorage]_vars

---------------------------------------------------------------------------
(* The button handler on its own, with its timers: update() is called with *)
(* the readings of the pins, events are consumed and cleared in any order, *)
(* and the clock moves between calls.                                      *)

\* the part of the state a call to the button handler leaves alone
ButtonOthers ==
    <<systemState, doses, alarmController, uiManager, lidSensor, webServer, rtc,
      lastTimeCheck, editingTime, editField, editDate, inListMode, storage,
      dismissed, presses, edits, alerted>>

\* 1 for an event, 0 for none
EventCount(event) == IF event = BTN_NONE THEN 0 ELSE 1

\* update() at the readings given; inputs keeps each pin's reading and the
\* time from which the readings have been at that level, whether an event
\* has been generated since the last consumeEvent, and the number of events
\* generated since the last confirmed press
ButtonsUpdate(readings) ==
    /\ buttons' = ButtonHandlerUpdateAt(buttons, readings, millis)
    /\ lastLoop' =
          [NoLoop EXCEPT !.call = "update",
                         !.emitted = [i \in 0 .. BUTTON_COUNT - 1 |->
                                         GeneratedEvent(buttons[i], readings[i], millis)]]
    /\ inputs' =
          [inputs EXCEPT !.buttons =
              [i \in 0 .. BUTTON_COUNT - 1 |->
                  LET h == inputs.buttons[i]
                      n == EventCount(GeneratedEvent(buttons[i], readings[i], millis))
                      pressed == buttons[i].currentState = HIGH
                                    /\ buttons'[i].currentState = LOW
                  IN  [h EXCEPT !.level = readings[i],
                                !.since = IF readings[i] # h.level THEN millis ELSE @,
                                !.fresh = @ \/ n = 1,
                                !.sincePress = IF pressed THEN n ELSE @ + n]]]
    /\ UNCHANGED <<millis, advances>>
    /\ UNCHANGED ButtonOthers

\* consumeEvent(index); lastLoop keeps the event returned and inputs counts
\* the events delivered
ButtonsConsume(index) ==
    LET r == consumeEvent(buttons, index)
    IN  /\ buttons' = r.buttons
        /\ lastLoop' = [NoLoop EXCEPT !.call = "consumeEvent", !.index = index,
                                      !.event = r.event]
        /\ inputs' = IF index >= BUTTON_COUNT THEN inputs
                      ELSE [inputs EXCEPT
                               !.buttons[index].delivered = @ + EventCount(r.event),
                               !.buttons[index].fresh = FALSE]
        /\ UNCHANGED <<millis, advances>>
        /\ UNCHANGED ButtonOthers

ButtonsClear ==
    /\ buttons' = clearEvents(buttons)
    /\ lastLoop' = [NoLoop EXCEPT !.call = "clearEvents"]
    /\ UNCHANGED <<millis, advances, inputs>>
    /\ UNCHANGED ButtonOthers

\* millis() moves on by dt between two calls
ButtonsWait(dt) ==
    /\ advances < MaxButtonWaits
    /\ millis' = millis + dt
    /\ advances' = advances + 1
    /\ lastLoop' = NoLoop
    /\ UNCHANGED <<buttons, inputs>>
    /\ UNCHANGED ButtonOthers

NextButtons ==
    \/ \E readings \in OkReadings : ButtonsUpdate(readings)
    \/ \E index \in 0 .. BUTTON_COUNT : ButtonsConsume(index)
    \/ ButtonsClear
    \/ \E dt \in ButtonSteps : ButtonsWait(dt)

SpecButtons == InitDefaults /\ [][NextButtons]_vars

---------------------------------------------------------------------------
(* The lid sensor on its own, with its timers: update() is called with the *)
(* reading of the reed switch, justOpened() is asked in any order, and the *)
(* clock moves between calls.                                              *)

\* the part of the state a call to the lid sensor leaves alone
LidOthers ==
    <<systemState, doses, alarmController, uiManager, buttons, webServer, rtc,
      lastTimeCheck, editingTime, editField, editDate, inListMode, storage,
      dismissed, presses, edits, alerted>>

\* update() at the reading given; inputs keeps the reading and the time from
\* which the readings have been at that level
LidUpdate(reading) ==
    /\ lidSensor' = LidSensorUpdateAt(lidSensor, reading, millis)
    /\ lastLoop' = [NoLoop EXCEPT !.call = "lidUpdate"]
    /\ inputs' = [inputs EXCEPT
                     !.lid = [level |-> reading,
                              since |-> IF reading # @.level THEN millis ELSE @.since]]
    /\ UNCHANGED <<millis, advances>>
    /\ UNCHANGED LidOthers

\* justOpened(); lastLoop keeps what it returned
LidJustOpened ==
    LET r == justOpened(lidSensor)
    IN  /\ lidSensor' = r.lid
        /\ lastLoop' = [NoLoop EXCEPT !.call = "justOpened", !.ok = r.result]
        /\ UNCHANGED <<millis, advances, inputs>>
        /\ UNCHANGED LidOthers

\* millis() moves on by dt between two calls
LidWait(dt) ==
    /\ advances < MaxWaits
    /\ millis' = millis + dt
    /\ advances' = advances + 1
    /\ lastLoop' = NoLoop
    /\ UNCHANGED <<lidSensor, inputs>>
    /\ UNCHANGED LidOthers

NextLid ==
    \/ \E reading \in {LOW, HIGH} : LidUpdate(reading)
    \/ LidJustOpened
    \/ \E dt \in LidSteps : LidWait(dt)

SpecLid == InitDefaults /\ [][NextLid]_vars

---------------------------------------------------------------------------
(* Vocabulary of the properties.  Every state of the model lies between    *)
(* two iterations of loop(), so a state predicate speaks of the loop       *)
(* boundaries and an action formula of one iteration or one request.       *)

\* the step is an iteration that ran the periodic checks
TickStep == lastTimeCheck' # lastTimeCheck

\* the step is an iteration in which the lid sensor reports the opening edge
LidOpensStep == ~lidSensor.lidOpen /\ lidSensor'.lidOpen

\* alarming is not switched off by the menu toggle, by mute or over the network
AlarmingEnabled ==
    /\ systemState.alarmEnabled
    /\ ~systemState.muteMode
    /\ alarmController.buzzerEnabled

NoAlertInProgress == ~systemState.alarmActive /\ ~systemState.snoozeActive

\* the dose the next match check finds, -1 if none
DueDose == DoseManager_checkDoseTime(doses, rtc.time)

\* the dose that is due once the taken flags are reset
DueDoseAfterReset == DoseManager_checkDoseTime(resetDailyStatus(doses), rtc.time)

DayChanged == rtc.day # systemState.currentDay /\ systemState.currentDay # 0

AlarmEngineStopped(a) == ~a.active /\ ~a.snoozed /\ ~a.buzzerOn

---------------------------------------------------------------------------
(* Alert coordination                                                      *)

\* C1: in an iteration where an alert is active and the lid reports its
\* opening edge, the iteration ends with the dose at activeDoseIndex taken,
\* the alarm engine stopped (not active, not snoozed, output off),
\* activeDoseIndex -1 and the menu at HOME, snoozed or not.
C1_LidOpeningEndsAlertAtHome ==
    [][(systemState.alarmActive /\ LidOpensStep) =>
          /\ getDoseExists(doses', systemState.activeDoseIndex)
                => doses'[systemState.activeDoseIndex + 1].taken
          /\ AlarmEngineStopped(alarmController')
          /\ ~systemState'.alarmActive
          /\ systemState'.activeDoseIndex = -1
          /\ systemState'.currentMenu = MENU_HOME]_vars

\* C2: a tick that finds an enabled, untaken dose at the current minute while
\* alarming is enabled and no alert is in progress raises the alert for that
\* dose: unless the same iteration also ends the alert (lid opening or OK long
\* press) the iteration ends in ALERT with activeDoseIndex at that dose and
\* the alarm engine running.  A tick during an alert raises nothing and
\* leaves activeDoseIndex and a running pattern's position as the engine's
\* own update left them.
C2_MatchRaisesOneAlert ==
    [][TickStep =>
          /\ (AlarmingEnabled /\ NoAlertInProgress /\ DueDose >= 0) =>
                /\ lastLoop'.alertRaised
                /\ (/\ ~lastLoop'.lidHandled
                    /\ lastLoop'.okEvent # BTN_LONG_PRESS) =>
                      /\ systemState'.alarmActive
                      /\ systemState'.activeDoseIndex = DueDose
                      /\ systemState'.currentMenu = MENU_ALERT
                      /\ alarmController'.active
                      /\ alarmController'.currentPattern = PATTERN_STANDARD
          /\ systemState.alarmActive =>
                /\ ~lastLoop'.alertRaised
                /\ systemState'.alarmActive =>
                      /\ systemState'.activeDoseIndex = systemState.activeDoseIndex
                      /\ alarmController'.patternStep
                            = AlarmUpdate(alarmController, millis).patternStep
                      /\ alarmController'.lastToggle
                            = AlarmUpdate(alarmController, millis).lastToggle]_vars

\* an alert is up and a later tick has passed without raising it again
C2_Witness ==
    /\ systemState.alarmActive
    /\ systemState.currentMenu = MENU_ALERT
    /\ alarmController.active
    /\ lastLoop.tick
    /\ ~lastLoop.alertRaised
    /\ DueDose = systemState.activeDoseIndex

\* C3: while alarming is switched off, by the menu toggle, by mute or by the
\* network alarm command, no step sets alarmActive or moves the menu to ALERT.
C3_DisabledNeverAlerts ==
    [][~AlarmingEnabled =>
          /\ systemState'.alarmActive => systemState.alarmActive
          /\ systemState'.currentMenu = MENU_ALERT
                => systemState.currentMenu = MENU_ALERT]_vars

\* C4: after an OK long press has dismissed the alert of a dose, no tick of
\* the same day raises an alert for that dose again.
C4_DismissedStaysQuiet ==
    [][(/\ dismissed # NoDose
        /\ rtc.day = dismissed.day
        /\ DueDose >= 0
        /\ doses[DueDose + 1].time = dismissed.time) => ~lastLoop'.alertRaised]_vars

\* C5: while the alarm engine is snoozed and its deadline not yet reached, no
\* step restarts or extends the deadline.
C5_SnoozeDeadlineKept ==
    [][(/\ alarmController.active
        /\ alarmController.snoozed
        /\ millis < alarmController.snoozeEndTime
        /\ alarmController'.snoozed) =>
          alarmController'.snoozeEndTime = alarmController.snoozeEndTime]_vars

\* C6: an iteration that handles a lid opening during an alert does not run
\* the ALERT handler: whatever button event is pending, the iteration
\* dismisses nothing and snoozes nothing, and the dose is marked taken.
C6_LidPreemptsAlertHandler ==
    [][(systemState.alarmActive /\ LidOpensStep) =>
          /\ lastLoop'.lidHandled
          /\ ~lastLoop'.alertHandler
          /\ dismissed' = dismissed
          /\ ~alarmController'.snoozed
          /\ ~systemState'.snoozeActive
          /\ getDoseExists(doses', systemState.activeDoseIndex)
                => doses'[systemState.activeDoseIndex + 1].taken]_vars

\* the lid opened during an alert in the iteration that delivered an OK long
\* press, and the dose is taken
C6_Witness ==
    /\ lastLoop.lidHandled
    /\ lastLoop.okEvent = BTN_LONG_PRESS
    /\ \E k \in 1 .. Len(doses) : doses[k].taken
    /\ dismissed = NoDose

\* C7: a tick on which the day changes resets the taken flags before it
\* looks for a due dose: a dose due at this minute and taken yesterday
\* raises its alert on this very tick.
C7_RolloverBeforeMatch ==
    [][(/\ TickStep
        /\ DayChanged
        /\ AlarmingEnabled
        /\ NoAlertInProgress
        /\ DueDoseAfterReset >= 0) => lastLoop'.alertRaised]_vars

\* C8: a tick resets the daily status (taken flags and the lid's count of
\* openings) exactly when the RTC's day differs from the last-seen day and
\* the last-seen day is not 0, and then once; every tick leaves the RTC's day
\* as the last-seen day, and no other step resets or changes it.
C8_ResetOncePerDayChange ==
    [][IF TickStep
       THEN /\ lastLoop'.resets = (IF DayChanged THEN 1 ELSE 0)
            /\ systemState'.currentDay = rtc.day
            /\ DayChanged =>
                  /\ lidSensor'.openingsToday = 0
                  /\ storage'.lastDay = rtc.day
                  /\ \A k \in 1 .. Len(doses') :
                        doses'[k].taken => lastLoop'.lidHandled
            /\ ~DayChanged =>
                  /\ lidSensor'.openingsToday >= lidSensor.openingsToday
                  /\ Len(doses') = Len(doses) =>
                        \A k \in 1 .. Len(doses) : doses[k].taken => doses'[k].taken
       ELSE /\ lastLoop'.resets = 0
            /\ systemState'.currentDay = systemState.currentDay
            /\ lidSensor'.openingsToday >= lidSensor.openingsToday]_vars

\* a tick has just reset a day on which the lid was opened and a dose taken
C8_Witness ==
    /\ lastLoop.tick
    /\ lastLoop.resets = 1
    /\ lidSensor.lidOpen
    /\ lidSensor.openingsToday = 0
    /\ Len(doses) > 0
    /\ ~doses[1].taken
    /\ systemState.currentDay = rtc.day
    /\ rtc.day > 1

\* C9: between iterations, activeDoseIndex is -1 whenever alarmActive is false.
C9_NoAlertNoActiveDose ==
    ~systemState.alarmActive => systemState.activeDoseIndex = -1

\* C10: between iterations, systemState.alarmActive equals
\* AlarmController::isActive().
C10_CoordinatorAgreesWithEngine ==
    systemState.alarmActive = alarmController.active

---------------------------------------------------------------------------
(* Screen timeout                                                          *)

\* C11: a step that ends with an alert active leaves the display on and does
\* not move the menu to HOME, however long the alert has lasted without
\* activity.
C11_AlertSuppressesScreenTimeout ==
    [][systemState'.alarmActive =>
          /\ uiManager'.displayOn
          /\ systemState'.currentMenu = MENU_HOME
                => systemState.currentMenu = MENU_HOME]_vars

\* an iteration has run during an alert that is older than the screen timeout
C11_Witness ==
    /\ systemState.alarmActive
    /\ lastLoop.alertHandler
    /\ millis - uiManager.lastActivity >= SCREEN_TIMEOUT
    /\ uiManager.displayOn
    /\ systemState.currentMenu = MENU_ALERT

---------------------------------------------------------------------------
(* Alarm engine                                                            *)

\* C12: in every state of the alarm engine, snoozed holds only together with
\* active, and when neither holds the buzzer is off: the buzzerOn flag is
\* clear and nothing is written to the buzzer channel.
C12_SnoozedOnlyWhileActive ==
    /\ alarmController.snoozed => alarmController.active
    /\ (~alarmController.active /\ ~alarmController.snoozed)
          => (~alarmController.buzzerOn /\ ~alarmController.output)

\* the engine has been stopped out of a snooze
C12_Witness ==
    /\ lastLoop.call = "stopAlarm"
    /\ ~alarmController.active
    /\ ~alarmController.snoozed
    /\ alarmController.snoozeEndTime > millis


\* C13: a snooze call made while the engine is inactive or already snoozed
\* leaves active, snoozed and the snooze deadline as they were.
C13_SnoozeOnlyFromActive ==
    [][(/\ lastLoop'.call = "snooze"
        /\ (~alarmController.active \/ alarmController.snoozed)) =>
          /\ alarmController'.active = alarmController.active
          /\ alarmController'.snoozed = alarmController.snoozed
          /\ alarmController'.snoozeEndTime = alarmController.snoozeEndTime]_vars


\* getSnoozeRemaining() as a caller reads it now
SnoozeRemaining == getSnoozeRemaining(alarmController, millis)

\* C14: getSnoozeRemaining() is 0 when the engine is not snoozed and positive
\* while it is snoozed and its deadline lies ahead; it does not grow while
\* time passes during a snooze; and the update() that finds the deadline
\* reached leaves the snooze and sounds again from pattern step 0.
C14_SnoozeRemainingCountsDown ==
    [][/\ ~alarmController'.snoozed
             => getSnoozeRemaining(alarmController', millis') = 0
       /\ (alarmController'.snoozed /\ millis' < alarmController'.snoozeEndTime)
             => getSnoozeRemaining(alarmController', millis') > 0
       /\ (alarmController.snoozed /\ UNCHANGED alarmController)
             => getSnoozeRemaining(alarmController', millis') <= SnoozeRemaining
       /\ (/\ lastLoop'.call = "update"
           /\ alarmController.snoozed
           /\ alarmController.active
           /\ millis >= alarmController.snoozeEndTime) =>
             /\ ~alarmController'.snoozed
             /\ alarmController'.active
             /\ alarmController'.patternStep = 0
             /\ alarmController'.buzzerOn]_vars


\* C15: startAlarm on an engine whose buzzer is disabled changes nothing: an
\* inactive engine stays inactive, not snoozed and silent, and the pattern
\* step and the selected pattern are kept.
C15_StartWhileDisabledIsNoOp ==
    [][(lastLoop'.call = "startAlarm" /\ ~alarmController.buzzerEnabled) =>
          /\ alarmController' = alarmController
          /\ AlarmEngineStopped(alarmController)
                => (AlarmEngineStopped(alarmController') /\ ~alarmController'.output)]_vars

\* startAlarm has been called on a disabled, inactive engine that had last
\* been started with another pattern than the default
C15_Witness ==
    /\ lastLoop.call = "startAlarm"
    /\ ~alarmController.buzzerEnabled
    /\ ~alarmController.active
    /\ alarmController.currentPattern = PATTERN_URGENT


\* C16: an update() of a sounding engine (active, not snoozed) leaves the
\* engine alone until the duration of the current step has passed since the
\* last toggle, and then moves to the next step, to step 0 after the last
\* one.  The step is always an index of the pattern, and while the engine
\* sounds the buzzer is driven on at the even steps and off at the odd
\* ones; what reaches the buzzer channel is that drive if the buzzer is
\* enabled and nothing otherwise.
C16_PatternAdvancesOnTime ==
    [][/\ alarmController'.patternStep \in 0 .. getPatternLength(alarmController') - 1
       /\ (alarmController'.active /\ ~alarmController'.snoozed)
             => (alarmController'.buzzerOn = (alarmController'.patternStep % 2 = 0))
       /\ (/\ lastLoop'.call = "update"
           /\ alarmController.active
           /\ ~alarmController.snoozed) =>
             LET duration == getCurrentPattern(alarmController)
                                [alarmController.patternStep + 1]
                 last == getPatternLength(alarmController) - 1
             IN  IF millis - alarmController.lastToggle < duration
                 THEN alarmController' = alarmController
                 ELSE /\ alarmController'.patternStep =
                            (IF alarmController.patternStep = last THEN 0
                             ELSE alarmController.patternStep + 1)
                      /\ alarmController'.lastToggle = millis
                      /\ alarmController'.output =
                            (/\ alarmController'.patternStep % 2 = 0
                             /\ alarmController.buzzerEnabled)
                      /\ alarmController'.active
                      /\ ~alarmController'.snoozed]_vars

\* an update() has taken a sounding engine from its last step back to step 0
C16_Witness ==
    /\ lastLoop.call = "update"
    /\ lastLoop.step = getPatternLength(alarmController) - 1
    /\ alarmController.patternStep = 0
    /\ alarmController.active
    /\ ~alarmController.snoozed
    /\ alarmController.snoozeEndTime = 0
    /\ alarmController.buzzerOn

---------------------------------------------------------------------------
(* Dose scheduler                                                          *)

\* C17: whatever addDose, updateDose and removeDose calls have been made,
\* accepted or rejected, the doses stand in ascending order of their minute
\* of the day and each dose's id is its position, counted from 0.
C17_SortedWithPositionIds ==
    \A k \in 1 .. Len(doses) :
        /\ doses[k].id = k - 1
        /\ k < Len(doses)
              => timeToMinutes(doses[k].time) <= timeToMinutes(doses[k + 1].time)

\* an accepted updateDose has moved one of the first two doses to the third
\* place or beyond
C17_Witness ==
    /\ lastLoop.call = "updateDose"
    /\ lastLoop.ok
    /\ \E k \in MaxIndex + 2 .. Len(doses) : doses[k].time = lastLoop.time


\* the distance of two minutes of the day around the 24-hour wheel
CircularDistance(a, b) ==
    IF Abs(a - b) <= 24 * 60 - Abs(a - b) THEN Abs(a - b) ELSE 24 * 60 - Abs(a - b)

\* C18: whatever scheduler operations have been made (add, update, remove,
\* enable and disable, daily reset, replacement over the network), any two
\* distinct enabled doses lie at least MIN_DOSE_SPACING minutes apart around
\* the 24-hour wheel.
C18_EnabledDosesKeepSpacing ==
    \A i, j \in 1 .. Len(doses) :
        (i # j /\ doses[i].enabled /\ doses[j].enabled) =>
            CircularDistance(timeToMinutes(doses[i].time),
                             timeToMinutes(doses[j].time)) >= MIN_DOSE_SPACING

\* the schedule holds two enabled doses exactly MIN_DOSE_SPACING apart, and a
\* valid time less than that from an enabled dose across midnight has just
\* been refused
C18_Witness ==
    /\ lastLoop.call \in {"addDose", "updateDose"}
    /\ ~lastLoop.ok
    /\ isValidTime(lastLoop.time)
    /\ \E i, j \in 1 .. Len(doses) :
          /\ doses[i].enabled
          /\ doses[j].enabled
          /\ timeToMinutes(doses[j].time) - timeToMinutes(doses[i].time)
                = MIN_DOSE_SPACING
    /\ \E i \in 1 .. Len(doses) :
          /\ doses[i].enabled
          /\ Abs(timeToMinutes(doses[i].time) - timeToMinutes(lastLoop.time))
                > 24 * 60 - MIN_DOSE_SPACING


\* some dose of the schedule lies less than MIN_DOSE_SPACING from time
TooClose(time) ==
    \E k \in 1 .. Len(doses) :
        CircularDistance(timeToMinutes(time), timeToMinutes(doses[k].time))
            < MIN_DOSE_SPACING

\* time is a time of day: hour 1..12, minute 0..59
ValidTimeOfDay(time) == time.hour \in 1 .. 12 /\ time.minute \in 0 .. 59

\* C19: an addDose that meets a full schedule, a time that is no time of day
\* or a time less than the minimum spacing from a dose returns false, and an
\* addDose that returns false leaves the number of doses and every dose's
\* time, enabled flag, taken flag and id as they were.
C19_RejectedAddChangesNothing ==
    [][lastLoop'.call = "addDose" =>
          /\ (\/ Len(doses) >= MAX_DOSES
              \/ ~ValidTimeOfDay(lastLoop'.time)
              \/ TooClose(lastLoop'.time)) => ~lastLoop'.ok
          /\ ~lastLoop'.ok => doses' = doses]_vars

\* a full schedule with a disabled or taken dose in it has refused a valid
\* time that keeps the spacing to every dose
C19_Witness ==
    /\ lastLoop.call = "addDose"
    /\ ~lastLoop.ok
    /\ Len(doses) = MAX_DOSES
    /\ ValidTimeOfDay(lastLoop.time)
    /\ ~TooClose(lastLoop.time)
    /\ Flagged(doses) # {}


\* the doses of ds without their ids
Entries(ds) == {[time |-> ds[k].time, enabled |-> ds[k].enabled, taken |-> ds[k].taken] :
                   k \in 1 .. Len(ds)}

\* C20: addDose returns true exactly when the schedule holds fewer than
\* MAX_DOSES doses, the time is a time of day and it lies at least
\* MIN_DOSE_SPACING minutes, around the 24-hour wheel, from every dose; the
\* schedule is then the old doses and the new one, enabled and not taken.
C20_AddSucceedsExactlyWhenAllowed ==
    [][lastLoop'.call = "addDose" =>
          /\ lastLoop'.ok <=> (/\ Len(doses) < MAX_DOSES
                               /\ ValidTimeOfDay(lastLoop'.time)
                               /\ ~TooClose(lastLoop'.time))
          /\ lastLoop'.ok =>
                /\ Len(doses') = Len(doses) + 1
                /\ Entries(doses') =
                      Entries(doses) \cup {[time |-> lastLoop'.time,
                                            enabled |-> TRUE, taken |-> FALSE]}]_vars

\* 8:00 AM, 12:00 PM and 6:00 PM have been added and 8:10 AM has been refused
C20_Witness ==
    /\ lastLoop.call = "addDose"
    /\ ~lastLoop.ok
    /\ lastLoop.time = Time12H(8, 10, FALSE)
    /\ Len(doses) = 3
    /\ doses[1].time = Time12H(8, 0, FALSE)
    /\ doses[2].time = Time12H(12, 0, TRUE)
    /\ doses[3].time = Time12H(6, 0, TRUE)

---------------------------------------------------------------------------

\* some dose of the schedule other than the one at index lies less than
\* MIN_DOSE_SPACING from time
TooCloseToOther(time, index) ==
    \E k \in 1 .. Len(doses) :
        /\ k - 1 # index
        /\ CircularDistance(timeToMinutes(time), timeToMinutes(doses[k].time))
              < MIN_DOSE_SPACING

\* the doses of ds but the one at index, without their ids
EntriesBut(ds, index) ==
    {[time |-> ds[k].time, enabled |-> ds[k].enabled, taken |-> ds[k].taken] :
        k \in (1 .. Len(ds)) \ {index + 1}}

\* C21: updateDose(index, time) returns true exactly when index is below the
\* number of doses, the time is a time of day and it lies at least
\* MIN_DOSE_SPACING minutes from every dose but the one at index; the
\* schedule is then the other doses as they were and the edited dose with the
\* new time and its old enabled and taken flags; an updateDose that returns
\* false leaves the schedule as it was.
C21_UpdateChangesOneTime ==
    [][lastLoop'.call = "updateDose" =>
          LET index == lastLoop'.index
              time == lastLoop'.time
          IN  /\ lastLoop'.ok <=> (/\ index < Len(doses)
                                   /\ ValidTimeOfDay(time)
                                   /\ ~TooCloseToOther(time, index))
              /\ lastLoop'.ok =>
                    /\ Len(doses') = Len(doses)
                    /\ Entries(doses') =
                          EntriesBut(doses, index) \cup
                             {[time |-> time,
                               enabled |-> doses[index + 1].enabled,
                               taken |-> doses[index + 1].taken]}
              /\ ~lastLoop'.ok => doses' = doses]_vars

\* an accepted updateDose has moved a disabled or taken dose, one of the first
\* two, and the dose stands at the third place or beyond with its flag
C21_Witness ==
    /\ lastLoop.call = "updateDose"
    /\ lastLoop.ok
    /\ \E k \in MaxIndex + 2 .. Len(doses) :
          /\ doses[k].time = lastLoop.time
          /\ k \in Flagged(doses)


\* C22: removeDose(index) with index at or beyond the number of doses returns
\* false and leaves the schedule as it was; otherwise it returns true, the
\* schedule is one dose shorter, the doses before index stand as they were
\* and each dose after index stands one place lower with its time, enabled
\* flag and taken flag, its id being its new position.
C22_RemoveTakesOutOne ==
    [][lastLoop'.call = "removeDose" =>
          LET index == lastLoop'.index
          IN  /\ lastLoop'.ok <=> index < Len(doses)
              /\ ~lastLoop'.ok => doses' = doses
              /\ lastLoop'.ok =>
                    /\ Len(doses') = Len(doses) - 1
                    /\ \A k \in 1 .. Len(doses') :
                          /\ doses'[k].id = k - 1
                          /\ LET old == IF k - 1 < index THEN doses[k] ELSE doses[k + 1]
                             IN  /\ doses'[k].time = old.time
                                 /\ doses'[k].enabled = old.enabled
                                 /\ doses'[k].taken = old.taken]_vars

\* the first dose has been removed, and two doses or more stand after it, one
\* of them disabled or taken
C22_Witness ==
    /\ lastLoop.call = "removeDose"
    /\ lastLoop.ok
    /\ lastLoop.index = 0
    /\ Len(doses) >= 2
    /\ Flagged(doses) # {}


\* the dose at index i is enabled, not taken and stands at exactly time
DueAt(i, time) ==
    /\ doses[i + 1].enabled
    /\ ~doses[i + 1].taken
    /\ doses[i + 1].time.hour = time.hour
    /\ doses[i + 1].time.minute = time.minute
    /\ doses[i + 1].time.isPM = time.isPM

\* C23: for every schedule and every current time, checkDoseTime returns -1
\* or the lowest index of a dose that is enabled, not taken and stands at
\* exactly the current hour, minute and AM/PM; it returns -1 only when there
\* is no such dose.
C23_CheckReturnsFirstDueDose ==
    (lastLoop.call = "checkDoseTime") =>
        /\ lastLoop.result = -1 \/ lastLoop.result \in 0 .. Len(doses) - 1
        /\ lastLoop.result # -1 =>
              /\ DueAt(lastLoop.result, lastLoop.time)
              /\ \A i \in 0 .. lastLoop.result - 1 : ~DueAt(i, lastLoop.time)
        /\ lastLoop.result = -1 =>
              \A i \in 0 .. Len(doses) - 1 : ~DueAt(i, lastLoop.time)

\* checkDoseTime has answered -1 at the time of a dose that is disabled or
\* taken, with an enabled untaken dose standing before it
C23_Witness ==
    /\ lastLoop.call = "checkDoseTime"
    /\ lastLoop.result = -1
    /\ \E k \in Flagged(doses) :
          /\ doses[k].time = lastLoop.time
          /\ k > 1
          /\ 1 \notin Flagged(doses)


\* C24: after resetDailyStatus every dose's taken flag is false, and the
\* number of doses and every dose's place, id, time and enabled flag are as
\* they were.
C24_ResetClearsTakenOnly ==
    [][lastLoop'.call = "resetDailyStatus" =>
          /\ Len(doses') = Len(doses)
          /\ \A k \in 1 .. Len(doses) :
                /\ ~doses'[k].taken
                /\ doses'[k].id = doses[k].id
                /\ doses'[k].time = doses[k].time
                /\ doses'[k].enabled = doses[k].enabled]_vars

\* resetDailyStatus has found a taken dose in a schedule of two doses or
\* more, the second of them disabled
C24_Witness ==
    /\ lastLoop.call = "resetDailyStatus"
    /\ lastLoop.result >= 1
    /\ Len(doses) >= 2
    /\ ~doses[2].enabled


\* the indexes of the doses that are enabled and not taken
Untaken == {i \in 0 .. Len(doses) - 1 : doses[i + 1].enabled /\ ~doses[i + 1].taken}

\* the minutes from time forward, around the 24-hour wheel, to the dose at
\* index i
ForwardDistance(time, i) ==
    (timeToMinutes(doses[i + 1].time) - timeToMinutes(time) + 24 * 60) % (24 * 60)

\* C25: getNextDose(currentTime) returns -1 when no dose is enabled and not
\* taken; otherwise it returns an enabled, untaken dose whose forward
\* distance from the current time, around the 24-hour wheel, is the least
\* among the enabled untaken doses, a dose at the current minute being at
\* distance zero.
C25_NextDoseIsNearestAhead ==
    (lastLoop.call = "getNextDose") =>
        /\ Untaken = {} => lastLoop.result = -1
        /\ Untaken # {} =>
              /\ lastLoop.result \in Untaken
              /\ \A k \in Untaken :
                    ForwardDistance(lastLoop.time, lastLoop.result)
                       <= ForwardDistance(lastLoop.time, k)

\* getNextDose has answered with a dose that comes round after midnight, a
\* disabled or taken dose lying nearer ahead
C25_Witness ==
    /\ lastLoop.call = "getNextDose"
    /\ lastLoop.result >= 0
    /\ timeToMinutes(doses[lastLoop.result + 1].time) < timeToMinutes(lastLoop.time)
    /\ \E k \in Flagged(doses) :
          ForwardDistance(lastLoop.time, k - 1)
             < ForwardDistance(lastLoop.time, lastLoop.result)

---------------------------------------------------------------------------
(* Buttons and lid                                                         *)

\* C26: consumeEvent on a channel returns the channel's pending event and
\* leaves none pending, and it returns an event only if update() has
\* generated one on that channel since the channel was last consumed: a second
\* consumeEvent with no such update() between returns BTN_NONE.
C26_EventDeliveredAtMostOnce ==
    [][(lastLoop'.call = "consumeEvent" /\ lastLoop'.index < BUTTON_COUNT) =>
          LET index == lastLoop'.index
          IN  /\ lastLoop'.event = buttons[index].pendingEvent
              /\ buttons'[index].pendingEvent = BTN_NONE
              /\ lastLoop'.event # BTN_NONE => inputs.buttons[index].fresh]_vars

\* the long press of a button still held has been delivered, and a second
\* consumeEvent has returned BTN_NONE
C26_Witness ==
    /\ lastLoop.call = "consumeEvent"
    /\ lastLoop.index = BUTTON_OK
    /\ lastLoop.event = BTN_NONE
    /\ inputs.buttons[BUTTON_OK].delivered = 1
    /\ buttons[BUTTON_OK].longPressTriggered
    /\ buttons[BUTTON_OK].currentState = LOW


\* the readings that h records have been at the level given for longer than
\* DEBOUNCE_DELAY
StableAt(h, level, now) == h.level = level /\ now - h.since > DEBOUNCE_DELAY

\* C27: a press-and-release of a button, as confirmed by the debounce, has
\* generated exactly one event when the release is confirmed.  LONG_PRESS is
\* generated while the button is held, LONG_PRESS_DURATION or more after the
\* confirmed press, by the first update() that finds the reading stable at
\* that time; it is generated once, however long the button stays held, and
\* the release then generates nothing.  Otherwise the confirmed release
\* generates SHORT_PRESS, and nothing else does.
C27_OneEventPerPress ==
    [][lastLoop'.call = "update" =>
          \A i \in 0 .. BUTTON_COUNT - 1 :
              LET b == buttons[i]
                  after == buttons'[i]
                  e == lastLoop'.emitted[i]
                  h == inputs'.buttons[i]
                  released == b.currentState = LOW /\ after.currentState = HIGH
              IN  /\ h.sincePress <= 1
                  /\ after.currentState = LOW =>
                        (h.sincePress = 1 <=> after.longPressTriggered)
                  /\ e = BTN_LONG_PRESS =>
                        /\ after.currentState = LOW
                        /\ millis - after.pressStartTime >= LONG_PRESS_DURATION
                  /\ (/\ after.currentState = LOW
                      /\ StableAt(h, LOW, millis)
                      /\ millis - after.pressStartTime >= LONG_PRESS_DURATION)
                        => after.longPressTriggered
                  /\ e = BTN_SHORT_PRESS => released
                  /\ released =>
                        /\ h.sincePress = 1
                        /\ e = (IF b.longPressTriggered THEN BTN_NONE
                                ELSE BTN_SHORT_PRESS)]_vars

\* the OK button, held for twice LONG_PRESS_DURATION, has generated its long
\* press and has been released, and the release has generated nothing
C27_Witness ==
    /\ lastLoop.call = "update"
    /\ lastLoop.emitted[BUTTON_OK] = BTN_NONE
    /\ buttons[BUTTON_OK].currentState = HIGH
    /\ buttons[BUTTON_OK].longPressTriggered
    /\ buttons[BUTTON_OK].pendingEvent = BTN_LONG_PRESS
    /\ inputs.buttons[BUTTON_OK].sincePress = 1
    /\ millis - buttons[BUTTON_OK].pressStartTime >= 2 * LONG_PRESS_DURATION


\* C28: update() changes a button's confirmed level only to the level its
\* readings have been at, unchanged, for longer than DEBOUNCE_DELAY, and it
\* generates SHORT_PRESS or LONG_PRESS only when the readings have been
\* unchanged that long: readings that leave the confirmed level for the
\* debounce window or less change nothing and generate nothing.
C28_DebouncedLevelAndEvents ==
    [][lastLoop'.call = "update" =>
          \A i \in 0 .. BUTTON_COUNT - 1 :
              LET h == inputs'.buttons[i]
              IN  /\ buttons'[i].currentState # buttons[i].currentState =>
                        StableAt(h, buttons'[i].currentState, millis)
                  /\ lastLoop'.emitted[i] # BTN_NONE =>
                        StableAt(h, h.level, millis)
                  /\ ~StableAt(h, h.level, millis) =>
                        /\ buttons'[i].currentState = buttons[i].currentState
                        /\ buttons'[i].pendingEvent = buttons[i].pendingEvent]_vars

\* the readings of the OK button have been LOW and are HIGH again, for longer
\* than DEBOUNCE_DELAY, and no press has been confirmed
C28_Witness ==
    /\ lastLoop.call = "update"
    /\ buttons[BUTTON_OK].lastDebounceTime > 0
    /\ buttons[BUTTON_OK].pressStartTime = 0
    /\ buttons[BUTTON_OK].currentState = HIGH
    /\ buttons[BUTTON_OK].pendingEvent = BTN_NONE
    /\ StableAt(inputs.buttons[BUTTON_OK], HIGH, millis)


\* C29: update() changes the lid's accepted state, and raises the
\* justOpened or justClosed edge, only when the readings of the reed switch
\* have been at the new level, unchanged, for LID_DEBOUNCE_DURATION or more;
\* readings that leave the accepted level for less than that raise no edge
\* and leave the accepted state as it was.
C29_LidAcceptedAfterLongWindow ==
    [][lastLoop'.call = "lidUpdate" =>
          LET h == inputs'.lid
              stable == millis - h.since >= LID_DEBOUNCE_DURATION
          IN  /\ lidSensor'.lidOpen # lidSensor.lidOpen =>
                    /\ stable
                    /\ lidSensor'.lidOpen = (h.level = HIGH)
              /\ lidSensor'.justOpenedFlag =>
                    stable /\ h.level = HIGH /\ ~lidSensor.lidOpen /\ lidSensor'.lidOpen
              /\ lidSensor'.justClosedFlag =>
                    stable /\ h.level = LOW /\ lidSensor.lidOpen /\ ~lidSensor'.lidOpen
              /\ ~stable =>
                    /\ lidSensor'.lidOpen = lidSensor.lidOpen
                    /\ ~lidSensor'.justOpenedFlag
                    /\ ~lidSensor'.justClosedFlag]_vars

\* the lid has been accepted as open for the second time, at the moment the
\* readings had been HIGH for LID_DEBOUNCE_DURATION
C29_Witness ==
    /\ lastLoop.call = "lidUpdate"
    /\ lidSensor.lidOpen
    /\ lidSensor.justOpenedFlag
    /\ lidSensor.openingsToday = 2
    /\ millis - inputs.lid.since = LID_DEBOUNCE_DURATION


---------------------------------------------------------------------------
(* Network                                                                 *)

\* the array holds a time that is no time of day, or two times less than
\* MIN_DOSE_SPACING apart
BadDoseList(list) ==
    \/ \E k \in 1 .. Len(list) : ~ValidTimeOfDay(list[k])
    \/ \E i, j \in 1 .. Len(list) :
          /\ i < j
          /\ CircularDistance(timeToMinutes(list[i]), timeToMinutes(list[j]))
                < MIN_DOSE_SPACING

\* C30: a POST /api/doses whose array holds a time that is no time of day, or
\* a time less than the minimum spacing from another of the array, is
\* answered with a client error (4xx) and leaves the schedule as it was.
C30_BadReplaceIsRefused ==
    [][(lastLoop'.call = "handleSetDoses" /\ BadDoseList(lastLoop'.request)) =>
          /\ lastLoop'.http \in 400 .. 499
          /\ doses' = doses]_vars


\* the step is a network write of the time or the date
ClockWriteStep == lastLoop'.call \in {"handleSetTime", "handleSetDate"}

\* C31: a network write of the time or the date changes the clock only while
\* the time-edit unlock flag is set; while the flag is clear the write is
\* refused and the clock stays as it was; the flag is clear at the start and
\* whenever the web server is stopped.
C31_ClockWriteNeedsUnlock ==
    /\ [](~webServer.running => ~webServer.timeEditUnlocked)
    /\ [][ClockWriteStep =>
            /\ rtc' # rtc => webServer.timeEditUnlocked
            /\ ~webServer.timeEditUnlocked =>
                  /\ rtc' = rtc
                  /\ lastLoop'.http \in 400 .. 499]_vars

\* a time has been written to the unlocked clock
C31_Witness ==
    /\ lastLoop.call = "handleSetTime"
    /\ lastLoop.http = 200
    /\ webServer.timeEditUnlocked
    /\ rtc.time = Time12H(8, 0, TRUE)


---------------------------------------------------------------------------
(* Storage                                                                 *)

\* the doses of loaded are those of saved, in the same order, not taken and
\* numbered by their positions
SameAfterLoad(saved, loaded) ==
    /\ Len(loaded) = Len(saved)
    /\ \A i \in 1 .. Len(saved) :
          /\ loaded[i].time = saved[i].time
          /\ loaded[i].enabled = saved[i].enabled
          /\ ~loaded[i].taken
          /\ loaded[i].id = i - 1

---------------------------------------------------------------------------
(* The edit screens                                                        *)

\* the field editors of the four edit screens
FieldEditing ==
    \/ systemState.currentMenu \in {MENU_ADD_DOSE, MENU_EDIT_TIME, MENU_EDIT_DATE}
    \/ systemState.currentMenu = MENU_EDIT_DOSE /\ ~inListMode

\* the menu an edit screen is entered from
OriginOf(menu) ==
    IF menu \in {MENU_ADD_DOSE, MENU_EDIT_DOSE} THEN MENU_EDIT_DOSES ELSE MENU_MAIN

\* the step is an iteration of loop() that hands a BACK short press, and no
\* other event, to the handler of the menu state the iteration started in
BackShortPressOnly ==
    /\ lastLoop'.backEvent = BTN_SHORT_PRESS
    /\ lastLoop'.okEvent = BTN_NONE
    /\ lastLoop'.nextEvent = BTN_NONE
    /\ ~lastLoop'.woke
    /\ ~lastLoop'.alertRaised
    /\ ~lastLoop'.lidHandled

\* C33: in the add-dose, edit-dose, edit-time and edit-date field editors a
\* BACK short press moves the field cursor back by one when it is above 0;
\* at field 0 it returns to the menu the editor was entered from; in both
\* cases the schedule and the clock stay as they were, whatever increments
\* the edited value has had.
C33_BackAbandonsEdit ==
    [][FieldEditing /\ BackShortPressOnly =>
          /\ doses' = doses
          /\ rtc' = rtc
          /\ editField > 0 =>
                /\ editField' = editField - 1
                /\ systemState'.currentMenu = systemState.currentMenu
          /\ editField = 0 =>
                /\ editField' = 0
                /\ systemState'.currentMenu = OriginOf(systemState.currentMenu)]_vars

\* the time editor has been left with BACK at its first field after an
\* increment of the edited time
C33_Witness ==
    /\ lastLoop.backEvent = BTN_SHORT_PRESS
    /\ systemState.currentMenu = MENU_MAIN
    /\ systemState.menuSelection = 1
    /\ editField = 0
    /\ edits > 0
    /\ editingTime # rtc.time


---------------------------------------------------------------------------
(* The alert and the menu state                                            *)

C35_LidMarksAlertedDose ==
    [][systemState.alarmActive /\ lastLoop'.lidHandled =>
          \A k \in 1 .. Len(doses) :
              /\ doses'[k].taken /\ ~doses[k].taken => doses[k].time = alerted.time
              /\ doses[k].time = alerted.time => doses'[k].taken]_vars


---------------------------------------------------------------------------
(* Settings                                                                *)

\* C36: the buzzer engine is enabled exactly when the alarm is enabled and
\* the mute mode is off.
C36_EngineEnabledIffArmedAndUnmuted ==
    alarmController.buzzerEnabled
        <=> (systemState.alarmEnabled /\ ~systemState.muteMode)


\* C37: whenever the dose menu leads into EDIT_DOSE, the flow starts with
\* the list of doses to pick from, so that the field editor and updateDose
\* come only after a dose has been picked in that visit.
C37_EditDoseStartsInListMode ==
    [][(/\ systemState.currentMenu = MENU_EDIT_DOSES
        /\ systemState'.currentMenu = MENU_EDIT_DOSE) => inListMode']_vars


---------------------------------------------------------------------------
(* Waking the display                                                      *)

\* C38: a button press made while the display is off only wakes the
\* display: after the iteration of loop() in which a fresh OK press turned
\* the display on, the next step hands no OK short press and no OK long
\* press to a state handler, so neither the release of that press nor a
\* longer hold of it is acted on.
C38_WakePressNotActedOn ==
    [][(lastLoop.woke /\ BUTTON_OK \in lastLoop.wokeBy) =>
          ~(/\ lastLoop'.okEvent \in {BTN_SHORT_PRESS, BTN_LONG_PRESS}
            /\ ~lastLoop'.woke
            /\ systemState' # systemState)]_vars


\* the (time, enabled) pairs of a schedule, in order
SchedulePairs(ds) == [i \in 1 .. Len(ds) |-> <<ds[i].time, ds[i].enabled>>]

\* C39: after every step that changes the schedule's (time, enabled) pairs
\* (a successful add, update or delete from the menu or over the network)
\* the dose records in storage are those of the schedule: loadDoses at the
\* next start-up gives the same sequence of pairs.
C39_PersistedEqualsSchedule ==
    [][SchedulePairs(doses') # SchedulePairs(doses) =>
          SchedulePairs(loadDoses(storage')) = SchedulePairs(doses')]_vars


---------------------------------------------------------------------------
(* Overlapping doses                                                       *)

\* C40: a polling tick made while an alert is ringing or snoozed raises no
\* alert, whatever dose is due: activeDoseIndex stays as it is and, when no
\* OK or BACK event is handled in the iteration, the alarm engine is where
\* its own update left it (not restarted).  An alert is raised only on a
\* polling tick made while no alert is ringing or snoozed, for a dose that
\* is due at that tick.
C40_MatchDuringAlertIgnored ==
    [][/\ (TickStep /\ ~NoAlertInProgress) =>
             /\ ~lastLoop'.alertRaised
             /\ systemState'.activeDoseIndex = systemState.activeDoseIndex
             /\ (lastLoop'.okEvent = BTN_NONE /\ lastLoop'.backEvent = BTN_NONE) =>
                   alarmController' = AlarmUpdate(alarmController, millis)
       /\ lastLoop'.alertRaised =>
             /\ TickStep
             /\ NoAlertInProgress
             /\ DueDose >= 0]_vars

\* a tick during an alert found another dose due and raised nothing
C40_Witness ==
    /\ systemState.alarmActive \/ systemState.snoozeActive
    /\ lastLoop.tick
    /\ ~lastLoop.alertRaised
    /\ DueDose >= 0
    /\ DueDose # systemState.activeDoseIndex

=============================================================================
